---- MODULE Spec2Model ----
(***************************************************************************)
(* Topology and identity resolution of the Hyperlane agent infrastructure: *)
(* the account registry (configs/accounts.ts), the validator set builder   *)
(* (configs/agents.ts), the stack naming function, the deployment loops    *)
(* and the agent stack (bin/hyperlane.ts), and the creation of the wallet  *)
(* secrets (scripts/create-wallet-secrets.ts).                             *)
(*                                                                         *)
(* Strings are sequences of one-character strings, so that toLowerCase,    *)
(* split, join and concatenation are computed character by character.      *)
(***************************************************************************)
EXTENDS Integers, Sequences, FiniteSets, TLC

VARIABLES
    \* ValidatorSetBuilder instance (configs/agents.ts)
    chain, size, accounts, buildResult,
    \* history: the arguments of the addAccount calls made on the builder,
    \* and their value when build() was last called
    addCalls, addCallsAtBuild,
    \* one call of duplexValidatorSet (configs/agents.ts)
    duplexArgs, duplexResult,
    \* the account lists of the registry (configs/accounts.ts)
    CORE_ACCOUNTS, CUSTOMER_ACCOUNTS,
    \* one account under resolution, the segments its name was written
    \* from, and the results of getNetworkType and getCustomerName on it
    account, nameSegments, networkResult, customerResult,
    \* one call of id() (bin/hyperlane.ts)
    idArgs, idResult,
    \* the agent configuration (configs/agents.ts)
    relayerConfigs, validatorSets,
    \* the run of bin/hyperlane.ts: the loop being executed and the index
    \* of its next element, the side tables, and the stacks of the app in
    \* construction order
    pc, idx, signatureBuckets, baseStacks, validatorKeyStacks, stacks,
    \* scripts/create-wallet-secrets.ts: the wallet configuration, the
    \* secrets held by the secrets manager, the network argument of every
    \* run so far, the position of the current run, and the histories of
    \* the commands sent and of the failures reported
    walletConfigs, secretStore, runNetworks, walletPc, walletIdx,
    sendLog, failed

duplexVars == <<duplexArgs, duplexResult>>
builderVars == <<chain, size, accounts, buildResult, addCalls, addCallsAtBuild,
                 duplexVars>>
registryVars == <<CORE_ACCOUNTS, CUSTOMER_ACCOUNTS>>
accountVars == <<account, nameSegments, networkResult, customerResult>>
idVars == <<idArgs, idResult>>
configVars == <<relayerConfigs, validatorSets>>
runVars == <<pc, idx, signatureBuckets, baseStacks, validatorKeyStacks, stacks>>
planVars == <<configVars, runVars>>
walletVars == <<walletConfigs, secretStore, runNetworks, walletPc, walletIdx,
                sendLog, failed>>
vars == <<builderVars, registryVars, accountVars, idVars, planVars, walletVars>>

----------------------------------------------------------------------------
(* Bounds *)

\* largest number of addAccount calls on one builder
MaxAdds == 4
\* largest declared validator set size
MaxSize == 3
\* largest number of "-"-separated segments of an account name
MaxSegments == 3
\* largest number of trailing parts passed to id()
MaxParts == 2
\* largest number of core accounts and of customer accounts of a registry
MaxCore == 2
MaxCustomers == 2
\* largest number of relayer routes and of validator sets
MaxRelayers == 2
MaxSets == 2
MaxAgents == 2
\* longest account list handed to duplexValidatorSet
MaxDuplexAccounts == 4
\* the runs of scripts/create-wallet-secrets.ts one behaviour follows
MaxRuns == 2

----------------------------------------------------------------------------
(* Strings *)

LowerLetters == <<"a","b","c","d","e","f","g","h","i","j","k","l","m",
                  "n","o","p","q","r","s","t","u","v","w","x","y","z">>
UpperLetters == <<"A","B","C","D","E","F","G","H","I","J","K","L","M",
                  "N","O","P","Q","R","S","T","U","V","W","X","Y","Z">>
Digits == <<"0","1","2","3","4","5","6","7","8","9">>

LowerChar(c) ==
    IF \E k \in 1..26 : UpperLetters[k] = c
    THEN LowerLetters[CHOOSE k \in 1..26 : UpperLetters[k] = c]
    ELSE c

UpperChar(c) ==
    IF \E k \in 1..26 : LowerLetters[k] = c
    THEN UpperLetters[CHOOSE k \in 1..26 : LowerLetters[k] = c]
    ELSE c

\* String.prototype.toLowerCase
toLowerCase(s) == [k \in 1..Len(s) |-> LowerChar(s[k])]

\* String.prototype.toUpperCase
toUpperCase(s) == [k \in 1..Len(s) |-> UpperChar(s[k])]

\* String.prototype.split(sep) for a one-character separator: the list of
\* the maximal pieces between occurrences of sep (never empty: a string
\* without sep gives the one-element list of itself).
RECURSIVE SplitFrom(_, _, _, _)
SplitFrom(s, sep, k, cur) ==
    IF k > Len(s) THEN <<cur>>
    ELSE IF s[k] = sep THEN <<cur>> \o SplitFrom(s, sep, k + 1, <<>>)
    ELSE SplitFrom(s, sep, k + 1, Append(cur, s[k]))

split(s, sep) == SplitFrom(s, sep, 1, <<>>)

RECURSIVE join_Reversed(_, _)
join_Reversed(list, sep) ==
    IF Len(list) = 0 THEN <<>>
    ELSE IF Len(list) = 1 THEN list[1]
    ELSE join_Reversed(Tail(list), sep) \o sep \o list[1]

\* Array.prototype.join(sep)
RECURSIVE join(_, _)
join(list, sep) ==
    IF Len(list) = 0 THEN <<>>
    ELSE IF Len(list) = 1 THEN list[1]
    ELSE list[1] \o sep \o join(Tail(list), sep)

\* Number to decimal string, as a template literal formats it
RECURSIVE NumToStr(_)
NumToStr(n) ==
    IF n < 10 THEN <<Digits[n + 1]>>
    ELSE NumToStr(n \div 10) \o <<Digits[(n % 10) + 1]>>

Dash == <<"-">>

----------------------------------------------------------------------------
(* Input alphabets *)

\* chain names
Chains == { <<"s","o","v">>, <<"e","t","h">> }

\* account ids: 12-digit AWS account ids, the ones of configs/agents.ts and
\* two that belong to no configured account
RossId == <<"5","9","0","1","8","3","6","9","1","0","2","5">>
SovTestnetId == <<"4","5","5","1","6","2","9","8","6","0","4","7">>
HypTestnetId == <<"1","8","9","2","6","5","2","4","0","6","9","1">>
UnknownId == <<"9","9","9","9","9","9","9","9","9","9","9","9">>
UnresolvableId == <<"7","7","0","0","0","0","0","0","0","0","0","0">>

AccountIds == { RossId, SovTestnetId, HypTestnetId }

\* an optional field or argument: not given (undefined), or given a value
Undefined == [given |-> FALSE]
Some(v) == [given |-> TRUE, value |-> v]

\* a returned value, and a thrown error
Return(v) == [ok |-> TRUE, value |-> v]
Throw == [ok |-> FALSE, value |-> <<>>]

----------------------------------------------------------------------------
(* ValidatorSetBuilder, configs/agents.ts *)

DefaultSize == 3

ValidatorPrefix == <<"v","a","l","i","d","a","t","o","r","-">>

ValidatorUniqueId_ZeroBased(c, i) == ValidatorPrefix \o c \o Dash \o NumToStr(i)

\* `validator-${this.chain}-${i + 1}` for the 0-based index i
ValidatorUniqueId(c, i) == ValidatorPrefix \o c \o Dash \o NumToStr(i + 1)

BuildTuples_AccountInId(c, accs) ==
    [k \in 1..Len(accs) |->
        [chain |-> c, accountId |-> accs[k],
         uniqueId |-> ValidatorPrefix \o c \o Dash \o accs[k]]]

\* the body of build() after the size check: one tuple per account
BuildTuples(c, accs) ==
    [k \in 1..Len(accs) |->
        [chain |-> c, accountId |-> accs[k],
         uniqueId |-> ValidatorUniqueId(c, k - 1)]]

\* the accounts build() emits tuples for
BuildAccounts(accs, s) == accs

BuildThrows_AcceptOversized(accs, s) == Len(accs) < s

\* the size check of build(): TRUE when build() throws
BuildThrows(accs, s) == Len(accs) # s

\* build(): an error and no tuples, or the tuples
BuildOutcome(c, s, accs) ==
    IF BuildThrows(accs, s)
    THEN [called |-> TRUE, ok |-> FALSE, validators |-> <<>>]
    ELSE [called |-> TRUE, ok |-> TRUE,
          validators |-> BuildTuples(c, BuildAccounts(accs, s))]

\* this.accounts.push(accountId)
PushAccount(accs, a) == Append(accs, a)

\* no build() call yet
NoResult == [called |-> FALSE, ok |-> FALSE, validators |-> <<>>]

\* constructor(chain, size = 3)
NewBuilder(c, s) ==
    /\ chain' = c
    /\ size' = IF s.given THEN s.value ELSE DefaultSize
    /\ accounts' = <<>>
    /\ addCalls' = <<>>
    /\ addCallsAtBuild' = <<>>
    /\ buildResult' = NoResult
    /\ UNCHANGED <<duplexVars, registryVars, walletVars, accountVars, idVars, planVars>>

\* addAccount(accountId)
AddAccount(a) ==
    /\ Len(addCalls) < MaxAdds
    /\ accounts' = PushAccount(accounts, a)
    /\ addCalls' = Append(addCalls, a)
    /\ UNCHANGED <<chain, size, buildResult, addCallsAtBuild>>
    /\ UNCHANGED <<duplexVars, registryVars, walletVars, accountVars, idVars, planVars>>

Build_ClearsAccounts ==
    /\ buildResult' = BuildOutcome(chain, size, accounts)
    /\ addCallsAtBuild' = addCalls
    /\ accounts' = <<>>
    /\ UNCHANGED <<chain, size, addCalls>>
    /\ UNCHANGED <<duplexVars, registryVars, walletVars, accountVars, idVars, planVars>>

\* build()
Build ==
    /\ buildResult' = BuildOutcome(chain, size, accounts)
    /\ addCallsAtBuild' = addCalls
    /\ UNCHANGED <<chain, size, accounts, addCalls>>
    /\ UNCHANGED <<duplexVars, registryVars, walletVars, accountVars, idVars, planVars>>

\* the accounts of a builder after addAccount was called for each id
RECURSIVE AddAccounts(_, _)
AddAccounts(accs, accountIds) ==
    IF Len(accountIds) = 0 THEN accs
    ELSE AddAccounts(PushAccount(accs, Head(accountIds)), Tail(accountIds))

duplexValidatorSet_FirstChain(chains, accountIds) ==
    LET Outcome(k) ==
            BuildOutcome(chains[1], DefaultSize, AddAccounts(<<>>, accountIds))
    IN  IF \E k \in 1..Len(chains) : ~Outcome(k).ok
        THEN Throw
        ELSE Return([k \in 1..Len(chains) |-> Outcome(k).validators])

\* duplexValidatorSet(chains, accountIds): for each chain a new builder of
\* the default size, every account added, and the result of build() pushed;
\* an error of build() leaves the function without a result
duplexValidatorSet(chains, accountIds) ==
    LET Outcome(k) ==
            BuildOutcome(chains[k], DefaultSize, AddAccounts(<<>>, accountIds))
    IN  IF \E k \in 1..Len(chains) : ~Outcome(k).ok
        THEN Throw
        ELSE Return([k \in 1..Len(chains) |-> Outcome(k).validators])

\* one call of duplexValidatorSet
CallDuplexValidatorSet ==
    /\ duplexArgs.given
    /\ ~duplexResult.given
    /\ duplexResult' = Some(duplexValidatorSet(duplexArgs.value.chains,
                                               duplexArgs.value.accountIds))
    /\ UNCHANGED duplexArgs
    /\ UNCHANGED <<chain, size, accounts, buildResult, addCalls, addCallsAtBuild>>
    /\ UNCHANGED <<registryVars, walletVars, accountVars, idVars, planVars>>

----------------------------------------------------------------------------
(* Account registry, configs/accounts.ts *)

\* enum NetworkType
Devnet == <<"d","e","v","n","e","t">>
Testnet == <<"t","e","s","t","n","e","t">>
Mainnet == <<"m","a","i","n","n","e","t">>
NetworkType == {Devnet, Testnet, Mainnet}

Sovereign == <<"s","o","v","e","r","e","i","g","n">>

\* JavaScript truthiness of an optional string: given and not empty
Truthy(opt) == opt.given /\ opt.value # <<>>

\* list[k] for the 0-based index k: undefined past the end
At(list, k) == IF k + 1 <= Len(list) THEN Some(list[k + 1]) ELSE Undefined

\* isCoreAccount(account)
isCoreAccount(a) ==
    \E k \in 1..Len(CORE_ACCOUNTS) : CORE_ACCOUNTS[k].id = a.id

\* the switch of getNetworkType on a name segment
NetworkOfSegment(lowerName) ==
    IF lowerName = Some(Devnet) THEN Return(Devnet)
    ELSE IF lowerName = Some(Testnet) THEN Return(Testnet)
    ELSE IF lowerName = Some(Mainnet) THEN Return(Mainnet)
    ELSE Throw

NetworkFromName_FirstSegment(a) ==
    NetworkOfSegment(At(split(toLowerCase(a.name), "-"), 0))

\* getNetworkType past the override: account.name.toLowerCase().split("-")[1]
NetworkFromName(a) ==
    NetworkOfSegment(At(split(toLowerCase(a.name), "-"), 1))

getNetworkType_IgnoreOverride(a) == NetworkFromName(a)

\* getNetworkType(account)
getNetworkType(a) ==
    IF Truthy(a.network) THEN Return(a.network.value)
    ELSE NetworkFromName(a)

getCustomerName_CoreFirst(a) ==
    IF isCoreAccount(a) THEN Return(Sovereign)
    ELSE IF Truthy(a.customer) THEN Return(toLowerCase(a.customer.value))
    ELSE Return(split(toLowerCase(a.name), "-")[1])

\* getCustomerName(account)
getCustomerName(a) ==
    IF Truthy(a.customer) THEN Return(toLowerCase(a.customer.value))
    ELSE IF isCoreAccount(a) THEN Return(Sovereign)
    ELSE Return(split(toLowerCase(a.name), "-")[1])

\* const lists: HYPERLANE_ACCOUNTS = [...CORE_ACCOUNTS, ...CUSTOMER_ACCOUNTS]
HYPERLANE_ACCOUNTS == CORE_ACCOUNTS \o CUSTOMER_ACCOUNTS

\* the core account of the repository's configuration
Ross ==
    [name |-> <<"R","o","s","s">>, id |-> RossId,
     network |-> Some(Devnet), customer |-> Some(Sovereign)]

\* the evaluation of getNetworkType(account) at a call site
CallGetNetworkType ==
    /\ account # Undefined
    /\ networkResult' = Some(getNetworkType(account))
    /\ UNCHANGED <<account, nameSegments, customerResult>>
    /\ UNCHANGED <<builderVars, registryVars, walletVars, idVars, planVars>>

\* the evaluation of getCustomerName(account) at a call site
CallGetCustomerName ==
    /\ account # Undefined
    /\ customerResult' = Some(getCustomerName(account))
    /\ UNCHANGED <<account, nameSegments, networkResult>>
    /\ UNCHANGED <<builderVars, registryVars, walletVars, idVars, planVars>>

----------------------------------------------------------------------------
(* Stack identities, bin/hyperlane.ts *)

HyperlanePrefix == <<"H","y","p","e","r","l","a","n","e","-">>

capitalize_KeepCase(str) ==
    IF Len(str) = 0 THEN <<>> ELSE <<UpperChar(str[1])>> \o Tail(str)

\* capitalize(str): s.charAt(0).toUpperCase() + s.slice(1) of the lower-cased str
capitalize(str) ==
    LET s == toLowerCase(str)
    IN  IF Len(s) = 0 THEN <<>> ELSE <<UpperChar(s[1])>> \o Tail(s)

\* the loop of id() over parts
RECURSIVE AppendParts(_, _)
AppendParts(acc, parts) ==
    IF Len(parts) = 0 THEN acc
    ELSE AppendParts(acc \o Dash \o Head(parts), Tail(parts))

\* id(purpose, network?, ...parts)
id(purpose, network, parts) ==
    LET base == HyperlanePrefix \o purpose
        withNetwork == IF Truthy(network)
                       THEN base \o Dash \o capitalize(network.value)
                       ELSE base
    IN  AppendParts(withNetwork, parts)

\* one call of id()
CallId ==
    /\ idArgs # Undefined
    /\ idResult' = Some(id(idArgs.value.purpose, idArgs.value.network,
                           idArgs.value.parts))
    /\ UNCHANGED idArgs
    /\ UNCHANGED <<builderVars, registryVars, walletVars, accountVars, planVars>>

----------------------------------------------------------------------------
(* The run of bin/hyperlane.ts *)

\* side tables: objects used as maps from strings
Has(m, k) == k \in DOMAIN m
Put(m, k, v) == [x \in (DOMAIN m) \cup {k} |-> IF x = k THEN v ELSE m[x]]

\* Array.prototype.flat
RECURSIVE Flat(_)
Flat(lists) ==
    IF Len(lists) = 0 THEN <<>> ELSE Head(lists) \o Flat(Tail(lists))

accountsForNetwork_AllNetworks(network) ==
    IF \E k \in 1..Len(HYPERLANE_ACCOUNTS) :
           ~getNetworkType(HYPERLANE_ACCOUNTS[k]).ok
    THEN Throw
    ELSE Return(HYPERLANE_ACCOUNTS)

accountsForNetwork_SkipUnresolved(network) ==
    LET OnNetwork(a) == getNetworkType(a).ok /\ getNetworkType(a).value = network
    IN  Return(SelectSeq(HYPERLANE_ACCOUNTS, OnNetwork))

\* accountsForNetwork(network): the filter calls getNetworkType on every
\* account of HYPERLANE_ACCOUNTS, so one unresolvable account makes it throw
accountsForNetwork(network) ==
    IF \E k \in 1..Len(HYPERLANE_ACCOUNTS) :
           ~getNetworkType(HYPERLANE_ACCOUNTS[k]).ok
    THEN Throw
    ELSE LET OnNetwork(a) == getNetworkType(a).value = network
         IN  Return(SelectSeq(HYPERLANE_ACCOUNTS, OnNetwork))

trustedAccountIds_WithSelf(list, host) == [k \in 1..Len(list) |-> list[k].id]

trustedAccountIds_OnlySelf(list, host) ==
    LET IsHost(a) == a.id = host.id
        same == SelectSeq(list, IsHost)
    IN  [k \in 1..Len(same) |-> same[k].id]

\* .filter((a) => a.id !== account.id).map((a) => a.id)
trustedAccountIds(list, host) ==
    LET NotHost(a) == a.id # host.id
        others == SelectSeq(list, NotHost)
    IN  [k \in 1..Len(others) |-> others[k].id]

\* getAccountById(accountId): the first account of HYPERLANE_ACCOUNTS with
\* that id, an error when there is none
getAccountById(accountId) ==
    IF \E k \in 1..Len(HYPERLANE_ACCOUNTS) : HYPERLANE_ACCOUNTS[k].id = accountId
    THEN Return(HYPERLANE_ACCOUNTS[
             CHOOSE k \in 1..Len(HYPERLANE_ACCOUNTS) :
                 /\ HYPERLANE_ACCOUNTS[k].id = accountId
                 /\ \A j \in 1..(k - 1) : HYPERLANE_ACCOUNTS[j].id # accountId])
    ELSE Throw

\* normalizeAccountName(name): the name without its spaces
normalizeAccountName(name) ==
    LET NotSpace(c) == c # " " IN SelectSeq(name, NotSpace)

\* enum AgentType
Relayer == <<"r","e","l","a","y","e","r">>
Validator == <<"v","a","l","i","d","a","t","o","r">>

\* new Stack(app, id): construct ids are unique within the app, a second
\* stack with the id of an earlier one is an error
IdInUse(stackId) == \E k \in 1..Len(stacks) : stacks[k].id = stackId

\* SignatureStack: the bucket of a network and the accounts granted on it
SignatureStack(stackId, host, network, trusted) ==
    [kind |-> "signature", id |-> stackId, account |-> host.id,
     network |-> network, trustedAccountIds |-> trusted,
     bucket |-> [bucketName |-> <<"h","y","p","e","r","l","a","n","e","-","s","i","g","n","a","t","u","r","e","s","-">> \o network,
                 account |-> host.id, network |-> network],
     tags |-> [Network |-> network]]

\* BaseAccountStack
BaseAccountStack(stackId, a, network) ==
    [kind |-> "base", id |-> stackId, account |-> a.id,
     tags |-> [Network |-> network]]

ValidatorKeyAliases_NoPrefix(configs) ==
    [u \in {configs[k].alias : k \in 1..Len(configs)} |-> u]

\* ValidatorKeyStack: one key and one alias per config, keys[alias] = the
\* alias "alias/" + config.alias
ValidatorKeyAliases(configs) ==
    [u \in {configs[k].alias : k \in 1..Len(configs)} |-> <<"a","l","i","a","s","/">> \o u]

\* two configs of one key stack with the same alias give two constructs
\* with the same id, an error
DuplicateKeyAlias(configs) ==
    \E j, k \in 1..Len(configs) : j # k /\ configs[j].alias = configs[k].alias

ValidatorKeyStack(stackId, accountId, network, configs) ==
    [kind |-> "key", id |-> stackId, account |-> accountId,
     configs |-> configs, keys |-> ValidatorKeyAliases(configs),
     tags |-> [Network |-> network]]

\* const dbPath = "/data" and the defaults of every agent
DefaultEnvironment ==
    [HYP_DB |-> <<"/","d","a","t","a">>, NO_COLOR |-> <<"1">>]

\* props.environment ?? {}
PropsEnvironment(props) ==
    IF props.environment.given THEN props.environment.value ELSE <<>>

\* { ...(props.environment ?? {}), HYP_DB: dbPath, NO_COLOR: "1" }: the
\* properties written last win
MergedEnvironment(props) == DefaultEnvironment @@ PropsEnvironment(props)

\* Secret.fromSecretNameV2(this, `SignerKeySecret-${chain}`,
\* `hyperlane/${chain}/wallet`) exposed to the container as
\* `HYP_CHAINS_${chain.toUpperCase()}_SIGNER_KEY`
SignerSecret(c) ==
    [chain |-> c,
     constructId |-> <<"S","i","g","n","e","r","K","e","y","S","e","c","r","e","t","-">> \o c,
     secretName |-> <<"h","y","p","e","r","l","a","n","e","/">> \o c \o <<"/","w","a","l","l","e","t">>,
     envVar |-> <<"H","Y","P","_","C","H","A","I","N","S","_">> \o toUpperCase(c)
                    \o <<"_","S","I","G","N","E","R","_","K","E","Y">>]

\* the validator branch: the key type and identity when a key is given,
\* then the checkpoint syncer
ValidatorEnvironment(props) ==
    LET merged == MergedEnvironment(props)
        withKey ==
            IF props.validatorKey.given
            THEN Put(Put(merged, "HYP_VALIDATOR_TYPE", <<"a","w","s">>),
                     "HYP_VALIDATOR_ID", props.validatorKey.value)
            ELSE merged
    IN  Put(Put(Put(withKey, "HYP_CHECKPOINTSYNCER_TYPE", <<"s","3">>),
                "HYP_CHECKPOINTSYNCER_BUCKET", props.bucket.bucketName),
            "HYP_CHECKPOINTSYNCER_FOLDER", props.uniqueId)

\* the environment object at the end of the constructor
AgentEnvironment(props) ==
    IF props.agentType = Validator
    THEN ValidatorEnvironment(props)
    ELSE MergedEnvironment(props)

RelayChains_Unsplit(props) == <<MergedEnvironment(props)["HYP_RELAYCHAINS"]>>

\* environment["HYP_RELAYCHAINS"].split(",")
RelayChains(props) == split(MergedEnvironment(props)["HYP_RELAYCHAINS"], ",")

\* container.addSecret: one per relayed chain of a relayer, the origin
\* chain's for a validator with validatorWalletAccess
AgentSecrets(props) ==
    IF props.agentType = Relayer
    THEN [k \in 1..Len(RelayChains(props)) |-> SignerSecret(RelayChains(props)[k])]
    ELSE IF props.agentType = Validator /\ props.validatorWalletAccess
    THEN <<SignerSecret(MergedEnvironment(props)["HYP_ORIGINCHAINNAME"])>>
    ELSE <<>>

\* Annotations.of(this).addWarningV2("sov:MissingValidatorKey", ...)
MissingValidatorKey ==
    <<"s","o","v",":","M","i","s","s","i","n","g","V","a","l","i","d","a","t","o","r","K","e","y">>

AgentWarnings(props) ==
    IF props.agentType = Validator /\ ~props.validatorKey.given
    THEN <<MissingValidatorKey>>
    ELSE <<>>

BucketGrants_WriteForAll(props) == {"read", "write"}

\* bucket.grantRead(taskRole), and grantWrite for a validator
BucketGrants(props) ==
    IF props.agentType = Validator THEN {"read", "write"} ELSE {"read"}

AgentStackThrows_MissingKey(props) ==
    \/ /\ props.agentType = Relayer
       /\ \/ ~Has(MergedEnvironment(props), "HYP_RELAYCHAINS")
          \/ \E j, k \in 1..Len(RelayChains(props)) :
                 j # k /\ RelayChains(props)[j] = RelayChains(props)[k]
    \/ /\ props.agentType = Validator
       /\ \/ ~props.validatorKey.given
          \/ /\ props.validatorWalletAccess
             /\ ~Has(MergedEnvironment(props), "HYP_ORIGINCHAINNAME")

\* the constructor throws: a method called on a missing environment value,
\* or two secrets with the same construct id
AgentStackThrows(props) ==
    \/ /\ props.agentType = Relayer
       /\ \/ ~Has(MergedEnvironment(props), "HYP_RELAYCHAINS")
          \/ \E j, k \in 1..Len(RelayChains(props)) :
                 j # k /\ RelayChains(props)[j] = RelayChains(props)[k]
    \/ /\ props.agentType = Validator
       /\ props.validatorWalletAccess
       /\ ~Has(MergedEnvironment(props), "HYP_ORIGINCHAINNAME")

AgentStack_BucketHost(stackId, accountId, network, props) ==
    [kind |-> "agent", id |-> stackId, account |-> props.bucket.account,
     network |-> network,
     props |-> props,
     uniqueId |-> props.uniqueId, agentType |-> props.agentType,
     bucket |-> props.bucket, validatorKey |-> props.validatorKey,
     bucketGrants |-> BucketGrants(props),
     environment |-> AgentEnvironment(props),
     secrets |-> AgentSecrets(props),
     warnings |-> AgentWarnings(props),
     serviceName |-> props.uniqueId,
     tags |-> props.tags @@ [Agent |-> props.agentType, Network |-> network]]

\* AgentStack: env.account is the account the stack is deployed into
AgentStack(stackId, accountId, network, props) ==
    [kind |-> "agent", id |-> stackId, account |-> accountId,
     network |-> network,
     props |-> props,
     uniqueId |-> props.uniqueId, agentType |-> props.agentType,
     bucket |-> props.bucket, validatorKey |-> props.validatorKey,
     bucketGrants |-> BucketGrants(props),
     environment |-> AgentEnvironment(props),
     secrets |-> AgentSecrets(props),
     warnings |-> AgentWarnings(props),
     serviceName |-> props.uniqueId,
     tags |-> props.tags @@ [Agent |-> props.agentType, Network |-> network]]

\* new EcrStack(app, id("EcrStack"))
EcrStack == [kind |-> "ecr", id |-> id(<<"E","c","r","S","t","a","c","k">>, Undefined, <<>>)]

----------------------------------------------------------------------------
(* Object.groupBy(validatorSets.flat(), v => v.accountId) and the order of
   Object.entries: keys that are array indices first, in ascending numeric
   order, then the other keys in insertion order *)

DigitValue(c) == (CHOOSE k \in 1..10 : Digits[k] = c) - 1
IsDigit(c) == \E k \in 1..10 : Digits[k] = c

\* x < y for canonical numeric strings: the shorter one, or the first
\* differing digit
NumLess(x, y) ==
    \/ Len(x) < Len(y)
    \/ /\ Len(x) = Len(y)
       /\ \E k \in 1..Len(x) :
             /\ \A j \in 1..(k - 1) : x[j] = y[j]
             /\ DigitValue(x[k]) < DigitValue(y[k])

\* 2^32 - 1
MaxArrayLength == <<"4","2","9","4","9","6","7","2","9","5">>

\* an array index: a canonical numeric string below 2^32 - 1
IsArrayIndex(str) ==
    /\ Len(str) > 0
    /\ \A k \in 1..Len(str) : IsDigit(str[k])
    /\ (str[1] # "0" \/ Len(str) = 1)
    /\ NumLess(str, MaxArrayLength)

\* the distinct keys of a list in first-occurrence order
RECURSIVE FirstOccurrences(_, _)
FirstOccurrences(keys, seen) ==
    IF Len(keys) = 0 THEN <<>>
    ELSE IF Head(keys) \in seen THEN FirstOccurrences(Tail(keys), seen)
    ELSE <<Head(keys)>> \o FirstOccurrences(Tail(keys), seen \cup {Head(keys)})

RECURSIVE Ascending(_)
Ascending(keySet) ==
    IF keySet = {} THEN <<>>
    ELSE LET least == CHOOSE x \in keySet :
                          \A y \in keySet : ~NumLess(y, x)
         IN  <<least>> \o Ascending(keySet \ {least})

GroupKeys_Ascending(validators) ==
    Ascending({validators[k].accountId : k \in 1..Len(validators)})

\* the keys of the grouping in the order Object.entries lists them
GroupKeys(validators) ==
    LET inserted == FirstOccurrences(
                        [k \in 1..Len(validators) |-> validators[k].accountId], {})
        indices == {inserted[k] : k \in 1..Len(inserted)} \cap
                       {x \in {inserted[k] : k \in 1..Len(inserted)} : IsArrayIndex(x)}
        NotIndex(x) == ~IsArrayIndex(x)
    IN  Ascending(indices) \o SelectSeq(inserted, NotIndex)

validatorAccounts_Ungrouped ==
    LET flat == Flat(validatorSets)
        keys == GroupKeys(flat)
    IN  [k \in 1..Len(keys) |-> [accountId |-> keys[k], configs |-> flat]]

\* the entries: each key with its validators in configured order
validatorAccounts ==
    LET flat == Flat(validatorSets)
        keys == GroupKeys(flat)
    IN  [k \in 1..Len(keys) |->
            LET OfKey(v) == v.accountId = keys[k]
            IN  [accountId |-> keys[k], configs |-> SelectSeq(flat, OfKey)]]

----------------------------------------------------------------------------
(* The loops *)

PhaseOrder_ValidatorsBeforeKeys ==
    <<"signature", "base", "relayers", "validators", "keys">>

PhaseOrder == <<"signature", "base", "relayers", "keys", "validators">>

PhaseLen(phase) ==
    CASE phase = "signature" -> Len(CORE_ACCOUNTS)
      [] phase = "base" -> Len(HYPERLANE_ACCOUNTS)
      [] phase = "relayers" -> Len(relayerConfigs)
      [] phase = "keys" -> Len(validatorAccounts)
      [] phase = "validators" -> Len(Flat(validatorSets))

\* the first loop from position k on that has an element, "done" when the
\* script has run to its end
RECURSIVE StartPhase(_)
StartPhase(k) ==
    IF k > Len(PhaseOrder) THEN "done"
    ELSE IF PhaseLen(PhaseOrder[k]) > 0 THEN PhaseOrder[k]
    ELSE StartPhase(k + 1)

PhaseIndex(phase) == CHOOSE k \in 1..Len(PhaseOrder) : PhaseOrder[k] = phase

\* the end of one iteration: the next element, or the next loop
Continue ==
    IF idx < PhaseLen(pc)
    THEN pc' = pc /\ idx' = idx + 1
    ELSE pc' = StartPhase(PhaseIndex(pc) + 1) /\ idx' = 1

Fail_SkipElement ==
    /\ Continue
    /\ UNCHANGED <<signatureBuckets, baseStacks, validatorKeyStacks, stacks>>

\* an uncaught error ends the script: nothing is synthesized
Fail ==
    /\ pc' = "error"
    /\ UNCHANGED <<idx, signatureBuckets, baseStacks, validatorKeyStacks, stacks>>

Frame == UNCHANGED <<builderVars, registryVars, walletVars, accountVars, idVars, configVars>>

SignatureStackId_PerAccount(host) ==
    id(<<"S","i","g","n","a","t","u","r","e","S","t","a","c","k">>,
       Some(getNetworkType(host).value), <<normalizeAccountName(host.name)>>)

\* id("SignatureStack", network)
SignatureStackId(host) ==
    id(<<"S","i","g","n","a","t","u","r","e","S","t","a","c","k">>,
       Some(getNetworkType(host).value), <<>>)

\* id("BaseInfra", network, accountName)
BaseStackId(a) ==
    id(<<"B","a","s","e","I","n","f","r","a">>,
       Some(getNetworkType(a).value), <<normalizeAccountName(a.name)>>)

\* id(capitalize(agentType), network, accountName) of a relayer
RelayerStackId(relayer) ==
    LET a == getAccountById(relayer.accountId).value
    IN  id(capitalize(Relayer), Some(getNetworkType(a).value),
           <<normalizeAccountName(a.name)>>)

\* id("ValidatorKey", network, accountName)
ValidatorKeyStackId(accountId) ==
    LET a == getAccountById(accountId).value
    IN  id(<<"V","a","l","i","d","a","t","o","r","K","e","y">>,
           Some(getNetworkType(a).value), <<normalizeAccountName(a.name)>>)

\* id(capitalize(agentType), network, uniqueId) of a validator
ValidatorStackId(validator) ==
    LET a == getAccountById(validator.accountId).value
    IN  id(capitalize(Validator), Some(getNetworkType(a).value),
           <<validator.uniqueId>>)

\* one iteration of: for (const account of CORE_ACCOUNTS)
SignatureStep ==
    /\ pc = "signature"
    /\ LET host == CORE_ACCOUNTS[idx]
           network == getNetworkType(host)
           forNetwork == accountsForNetwork(network.value)
           stackId == SignatureStackId(host)
       IN  IF ~network.ok \/ ~forNetwork.ok \/ IdInUse(stackId)
           THEN Fail
           ELSE LET stack == SignatureStack(stackId, host, network.value,
                                 trustedAccountIds(forNetwork.value, host))
                IN  /\ stacks' = Append(stacks, stack)
                    /\ signatureBuckets' = Put(signatureBuckets, network.value, stack)
                    /\ Continue
                    /\ UNCHANGED <<baseStacks, validatorKeyStacks>>
    /\ Frame

\* one iteration of: for (const account of HYPERLANE_ACCOUNTS)
BaseStep ==
    /\ pc = "base"
    /\ LET a == HYPERLANE_ACCOUNTS[idx]
           network == getNetworkType(a)
           stackId == BaseStackId(a)
       IN  IF ~network.ok \/ IdInUse(stackId)
           THEN Fail
           ELSE LET stack == BaseAccountStack(stackId, a, network.value)
                IN  /\ stacks' = Append(stacks, stack)
                    /\ baseStacks' = Put(baseStacks, a.id, stack)
                    /\ Continue
                    /\ UNCHANGED <<signatureBuckets, validatorKeyStacks>>
    /\ Frame

\* one iteration of: for (const relayer of relayerConfigs)
RelayerStep ==
    /\ pc = "relayers"
    /\ LET relayer == relayerConfigs[idx]
           found == getAccountById(relayer.accountId)
           a == found.value
           network == getNetworkType(a)
           stackId == RelayerStackId(relayer)
           props == [uniqueId |-> relayer.uniqueId,
                     agentType |-> Relayer,
                     bucket |-> signatureBuckets[network.value].bucket,
                     validatorKey |-> Undefined,
                     validatorWalletAccess |-> FALSE,
                     environment |->
                         Some([HYP_RELAYCHAINS |-> join(relayer.chains, <<",">>)]),
                     tags |-> <<>>]
       IN  IF \/ ~found.ok
              \/ ~network.ok
              \/ ~Has(baseStacks, a.id)
              \/ ~Has(signatureBuckets, network.value)
              \/ IdInUse(stackId)
              \/ AgentStackThrows(props)
           THEN Fail
           ELSE LET stack == AgentStack(stackId, a.id, network.value, props)
                IN  /\ stacks' = Append(stacks, stack)
                    /\ Continue
                    /\ UNCHANGED <<signatureBuckets, baseStacks, validatorKeyStacks>>
    /\ Frame

\* one iteration of: for (const [accountId, configs] of Object.entries(validatorAccounts))
KeyStep ==
    /\ pc = "keys"
    /\ LET entry == validatorAccounts[idx]
           found == getAccountById(entry.accountId)
           a == found.value
           network == getNetworkType(a)
           keyConfs == [k \in 1..Len(entry.configs) |->
                           [alias |-> entry.configs[k].uniqueId,
                            chain |-> entry.configs[k].chain]]
           stackId == ValidatorKeyStackId(entry.accountId)
       IN  IF \/ ~found.ok
              \/ ~network.ok
              \/ IdInUse(stackId)
              \/ DuplicateKeyAlias(keyConfs)
           THEN Fail
           ELSE LET stack == ValidatorKeyStack(stackId, entry.accountId,
                                 network.value, keyConfs)
                IN  /\ stacks' = Append(stacks, stack)
                    /\ validatorKeyStacks' =
                           Put(validatorKeyStacks, entry.accountId, stack)
                    /\ Continue
                    /\ UNCHANGED <<signatureBuckets, baseStacks>>
    /\ Frame

\* one iteration of the inner loop of: for (const validatorSet of validatorSets)
ValidatorStep ==
    /\ pc = "validators"
    /\ LET validator == Flat(validatorSets)[idx]
           validatorKey ==
               IF /\ Has(validatorKeyStacks, validator.accountId)
                  /\ Has(validatorKeyStacks[validator.accountId].keys,
                         validator.uniqueId)
               THEN Some(validatorKeyStacks[validator.accountId]
                             .keys[validator.uniqueId])
               ELSE Undefined
           found == getAccountById(validator.accountId)
           a == found.value
           network == getNetworkType(a)
           stackId == ValidatorStackId(validator)
           props == [uniqueId |-> validator.uniqueId,
                     agentType |-> Validator,
                     bucket |-> signatureBuckets[network.value].bucket,
                     validatorKey |-> validatorKey,
                     validatorWalletAccess |-> FALSE,
                     environment |->
                         Some([HYP_ORIGINCHAINNAME |-> validator.chain]),
                     tags |-> [Chain |-> validator.chain]]
       IN  IF \/ ~found.ok
              \/ ~network.ok
              \/ ~Has(baseStacks, a.id)
              \/ ~Has(signatureBuckets, network.value)
              \/ IdInUse(stackId)
              \/ AgentStackThrows(props)
           THEN Fail
           ELSE LET stack == AgentStack(stackId, validator.accountId, network.value,
                                        props)
                IN  /\ stacks' = Append(stacks, stack)
                    /\ Continue
                    /\ UNCHANGED <<signatureBuckets, baseStacks, validatorKeyStacks>>
    /\ Frame

\* new AgentStack(app, stackId, props) on its own, as bin/test-relayer.ts
\* calls it
NewAgentStack(stackId, accountId, network, props) ==
    /\ pc = "agents"
    /\ Len(stacks) < MaxAgents
    /\ IF IdInUse(stackId) \/ AgentStackThrows(props)
       THEN Fail
       ELSE /\ stacks' = Append(stacks, AgentStack(stackId, accountId, network, props))
            /\ UNCHANGED <<pc, idx, signatureBuckets, baseStacks, validatorKeyStacks>>
    /\ Frame

----------------------------------------------------------------------------
(* Specification of one builder instance *)

BuilderIdle ==
    /\ chain = <<>> /\ size = DefaultSize /\ accounts = <<>>
    /\ buildResult = NoResult /\ addCalls = <<>> /\ addCallsAtBuild = <<>>
    /\ duplexArgs = Undefined /\ duplexResult = Undefined

RegistryIdle == CORE_ACCOUNTS = <<>> /\ CUSTOMER_ACCOUNTS = <<>>

AccountIdle ==
    /\ account = Undefined /\ nameSegments = <<>>
    /\ networkResult = Undefined /\ customerResult = Undefined

IdIdle == idArgs = Undefined /\ idResult = Undefined

WalletIdle ==
    /\ walletConfigs = <<>>
    /\ secretStore = <<>>
    /\ runNetworks = <<>>
    /\ walletPc = "idle"
    /\ walletIdx = 1
    /\ sendLog = <<>>
    /\ failed = <<>>

PlanIdle ==
    /\ relayerConfigs = <<>> /\ validatorSets = <<>>
    /\ pc = "idle" /\ idx = 1
    /\ signatureBuckets = <<>> /\ baseStacks = <<>>
    /\ validatorKeyStacks = <<>> /\ stacks = <<>>

InitBuilder ==
    /\ chain \in Chains
    /\ size \in (0..MaxSize) \cup {DefaultSize}
    /\ accounts = <<>>
    /\ addCalls = <<>>
    /\ addCallsAtBuild = <<>>
    /\ buildResult = NoResult
    /\ duplexArgs = Undefined /\ duplexResult = Undefined
    /\ RegistryIdle /\ AccountIdle /\ IdIdle /\ PlanIdle /\ WalletIdle

NextBuilder ==
    \/ \E c \in Chains, s \in {Some(n) : n \in 0..MaxSize} \cup {Undefined} :
          NewBuilder(c, s)
    \/ \E a \in AccountIds : AddAccount(a)
    \/ Build

SpecBuilder == InitBuilder /\ [][NextBuilder]_vars

\* C1: build() succeeds exactly when the number of addAccount calls equals
\* the declared size; otherwise it fails and emits no tuple, and a success
\* emits as many tuples as there were calls (no truncation, no padding).
C1_BuildSucceedsIffExactSize ==
    buildResult.called =>
        /\ buildResult.ok <=> (Len(addCallsAtBuild) = size)
        /\ ~buildResult.ok => buildResult.validators = <<>>
        /\ buildResult.ok => Len(buildResult.validators) = Len(addCallsAtBuild)

\* an oversized builder was built and failed
C1_Witness ==
    /\ buildResult.called
    /\ Len(addCallsAtBuild) > size
    /\ ~buildResult.ok
    /\ buildResult.validators = <<>>

\* C2: a successful build() for chain c emits one tuple per addAccount call
\* in call order, the i-th with chain c, the i-th argument as accountId and
\* uniqueId "validator-" + c + "-" + i.
C2_TuplesInCallOrder ==
    buildResult.ok =>
        /\ Len(buildResult.validators) = Len(addCallsAtBuild)
        /\ \A k \in 1..Len(addCallsAtBuild) :
              buildResult.validators[k] =
                  [chain |-> chain,
                   accountId |-> addCallsAtBuild[k],
                   uniqueId |-> <<"v","a","l","i","d","a","t","o","r","-">>
                                \o chain \o <<"-">> \o <<Digits[k + 1]>>]

\* a set of three different accounts was built
C2_Witness ==
    /\ buildResult.ok
    /\ Len(buildResult.validators) = 3
    /\ buildResult.validators[1].accountId # buildResult.validators[2].accountId
    /\ buildResult.validators[2].accountId # buildResult.validators[3].accountId

----------------------------------------------------------------------------
(* Specification of the resolution of one account *)

\* the segments account names are written from
SegmentTokens ==
    { Devnet, <<"T","e","s","t","n","e","t">>, <<"M","A","I","N","N","E","T">>,
      <<"s","o","v">>, <<>> }

\* the network a segment token names, case-insensitively
TokenNetwork(t) ==
    CASE t = Devnet -> Some(Devnet)
      [] t = <<"T","e","s","t","n","e","t">> -> Some(Testnet)
      [] t = <<"M","A","I","N","N","E","T">> -> Some(Mainnet)
      [] OTHER -> Undefined

\* the lower-case spelling of a segment token
TokenLower(t) ==
    CASE t = <<"T","e","s","t","n","e","t">> -> Testnet
      [] t = <<"M","A","I","N","N","E","T">> -> Mainnet
      [] OTHER -> t

SegmentLists ==
    UNION { [1..n -> SegmentTokens] : n \in 1..MaxSegments }

CustomerOverrides == { Undefined, Some(<<>>), Some(<<"A","c","m","e">>) }

Acme == <<"a","c","m","e">>

NetworkOverrides == { Undefined } \cup { Some(n) : n \in NetworkType }

InitAccounts ==
    /\ CORE_ACCOUNTS \in { <<Ross>>, <<>> }
    /\ CUSTOMER_ACCOUNTS = <<>>
    /\ nameSegments \in SegmentLists
    /\ account \in { [name |-> join(nameSegments, Dash), id |-> i,
                      network |-> n, customer |-> c] :
                        i \in {RossId, SovTestnetId},
                        n \in NetworkOverrides, c \in CustomerOverrides }
    /\ networkResult = Undefined
    /\ customerResult = Undefined
    /\ BuilderIdle /\ IdIdle /\ PlanIdle /\ WalletIdle

NextAccounts == CallGetNetworkType \/ CallGetCustomerName

SpecAccounts == InitAccounts /\ [][NextAccounts]_vars

\* C7: on an account with an explicit network override getNetworkType
\* returns the override, whatever the name, and raises no error.
C7_OverrideIsTotal ==
    (networkResult.given /\ account.network.given) =>
        /\ networkResult.value.ok
        /\ networkResult.value.value = account.network.value

\* an account named after one network and overridden to another was resolved
C7_Witness ==
    /\ networkResult.given
    /\ account.network = Some(Devnet)
    /\ Len(nameSegments) >= 2
    /\ TokenNetwork(nameSegments[2]) = Some(Testnet)
    /\ networkResult.value = Return(Devnet)

\* C8: without an override getNetworkType returns the network named, in any
\* letter case, by the second "-"-separated segment of the name, and fails
\* when that segment is absent or names no network; there is no default.
C8_NameSegmentOrError ==
    (networkResult.given /\ ~account.network.given) =>
        IF Len(nameSegments) >= 2 /\ TokenNetwork(nameSegments[2]).given
        THEN networkResult.value = Return(TokenNetwork(nameSegments[2]).value)
        ELSE ~networkResult.value.ok

\* a name whose first segment names a network and whose second does not
\* was rejected
C8_Witness ==
    /\ networkResult.given
    /\ ~account.network.given
    /\ Len(nameSegments) >= 2
    /\ TokenNetwork(nameSegments[1]).given
    /\ ~TokenNetwork(nameSegments[2]).given
    /\ ~networkResult.value.ok

\* C9 as stated: getCustomerName never fails and returns the override if
\* present (in any letter case), otherwise "core" for a core account,
\* otherwise the segment derived from the name.
C9_Original ==
    customerResult.given =>
        /\ customerResult.value.ok
        /\ IF Truthy(account.customer)
           THEN customerResult.value.value
                    \in {account.customer.value, Acme}
           ELSE IF \E k \in 1..Len(CORE_ACCOUNTS) :
                       CORE_ACCOUNTS[k].id = account.id
           THEN customerResult.value.value = <<"c","o","r","e">>
           ELSE customerResult.value.value = TokenLower(nameSegments[1])

\* C9 amended: getCustomerName never fails and returns the lower-cased
\* override if one is present and not empty, otherwise "sovereign" for an
\* account whose id is in the core list, otherwise the lower-cased first
\* "-"-separated segment of the name.
C9_CustomerPrecedence ==
    customerResult.given =>
        /\ customerResult.value.ok
        /\ IF account.customer.given /\ account.customer.value # <<>>
           THEN customerResult.value.value = Acme
           ELSE IF \E k \in 1..Len(CORE_ACCOUNTS) :
                       CORE_ACCOUNTS[k].id = account.id
           THEN customerResult.value.value = <<"s","o","v","e","r","e","i","g","n">>
           ELSE customerResult.value.value = TokenLower(nameSegments[1])

\* a core account with an override resolved to the override, and not to
\* the core name
C9_Witness ==
    /\ customerResult.given
    /\ \E k \in 1..Len(CORE_ACCOUNTS) : CORE_ACCOUNTS[k].id = account.id
    /\ account.customer = Some(<<"A","c","m","e">>)
    /\ customerResult.value = Return(Acme)

----------------------------------------------------------------------------
(* Specification of one call of id() *)

Purposes == { <<"E","c","r">>, <<"B","a","s","e">> }

NetworkArgs ==
    { Undefined, Some(<<>>), Some(Devnet),
      Some(<<"T","E","S","T","N","E","T">>), Some(<<"m","A","i","n","N","e","t">>) }

\* the capitalized spelling of a network argument
CapitalizedArg(n) ==
    CASE n = Devnet -> <<"D","e","v","n","e","t">>
      [] n = <<"T","E","S","T","N","E","T">> -> <<"T","e","s","t","n","e","t">>
      [] n = <<"m","A","i","n","N","e","t">> -> <<"M","a","i","n","n","e","t">>

PartTokens == { <<"R","o","s","s">>, <<>>, <<"v","-","1">> }

PartLists == UNION { [1..n -> PartTokens] : n \in 0..MaxParts }

InitId ==
    /\ idArgs \in { Some([purpose |-> p, network |-> n, parts |-> ps]) :
                      p \in Purposes, n \in NetworkArgs, ps \in PartLists }
    /\ idResult = Undefined
    /\ BuilderIdle /\ RegistryIdle /\ AccountIdle /\ PlanIdle /\ WalletIdle

NextId == CallId

SpecId == InitId /\ [][NextId]_vars

\* C10: id(purpose, network, parts) is "Hyperlane-" + purpose, then "-" and
\* the capitalized network exactly when a network (a non-empty string) is
\* given, then "-" + part for each part in argument order.
C10_IdFormat ==
    idResult.given =>
        LET a == idArgs.value
            net == IF a.network.given /\ a.network.value # <<>>
                   THEN <<"-">> \o CapitalizedArg(a.network.value)
                   ELSE <<>>
            tail == IF Len(a.parts) = 0 THEN <<>>
                    ELSE <<"-">> \o join(a.parts, <<"-">>)
        IN  idResult.value =
                <<"H","y","p","e","r","l","a","n","e","-">> \o a.purpose
                    \o net \o tail

\* an identity with an upper-case network argument and two parts was built
C10_Witness ==
    /\ idResult.given
    /\ idArgs.value.network = Some(<<"T","E","S","T","N","E","T">>)
    /\ Len(idArgs.value.parts) = 2
    /\ idArgs.value.parts[1] # idArgs.value.parts[2]

----------------------------------------------------------------------------
(* Specification of the run over a registry without agents *)

SovTestnet ==
    [name |-> <<"s","o","v","-","T","e","s","t","n","e","t">>, id |-> SovTestnetId,
     network |-> Undefined, customer |-> Undefined]
HypTestnet ==
    [name |-> <<"H","y","p"," ","T","e","s","t","n","e","t">>, id |-> HypTestnetId,
     network |-> Some(Testnet), customer |-> Undefined]
Twin ==
    [name |-> <<"t","w","i","n">>, id |-> RossId,
     network |-> Some(Testnet), customer |-> Undefined]
Unresolvable ==
    [name |-> <<"b","a","d">>, id |-> UnresolvableId,
     network |-> Undefined, customer |-> Undefined]

AccountPool == {Ross, SovTestnet, HypTestnet, Twin, Unresolvable}

\* the network each account of the pool is configured for
PoolNetwork(a) ==
    CASE a = Ross -> Some(Devnet)
      [] a = SovTestnet -> Some(Testnet)
      [] a = HypTestnet -> Some(Testnet)
      [] a = Twin -> Some(Testnet)
      [] OTHER -> Undefined

ListsUpTo(S, n) == UNION { [1..k -> S] : k \in 0..n }

InitRun ==
    /\ pc = StartPhase(1)
    /\ idx = 1
    /\ signatureBuckets = <<>>
    /\ baseStacks = <<>>
    /\ validatorKeyStacks = <<>>
    /\ stacks = <<EcrStack>>

InitRegistry ==
    /\ CORE_ACCOUNTS \in ListsUpTo(AccountPool, MaxCore)
    /\ CUSTOMER_ACCOUNTS \in ListsUpTo(AccountPool, MaxCustomers)
    /\ relayerConfigs = <<>>
    /\ validatorSets = <<>>
    /\ InitRun
    /\ BuilderIdle /\ AccountIdle /\ IdIdle /\ WalletIdle

NextRegistry == SignatureStep \/ BaseStep

SpecRegistry == InitRegistry /\ [][NextRegistry]_vars

\* the elements of a list
Elements(list) == {list[k] : k \in 1..Len(list)}

\* the signature loop has run to its end
SignatureLoopDone == pc \in {"base", "relayers", "keys", "validators", "done"}

\* C4: the id of the core account hosting a network's signature storage is
\* never in the trustedAccountIds computed for that storage.
C4_SelfExclusion ==
    \A k \in 1..Len(stacks) :
        stacks[k].kind = "signature" =>
            stacks[k].account \notin Elements(stacks[k].trustedAccountIds)

\* a storage whose host shares its network with two other accounts
C4_Witness ==
    \E k \in 1..Len(stacks) :
        /\ stacks[k].kind = "signature"
        /\ Len(stacks[k].trustedAccountIds) = 2
        /\ stacks[k].account \notin Elements(stacks[k].trustedAccountIds)

\* C5: the trusted list of the storage hosted by core account C of network
\* N is the ids, in registry order, of the accounts of HYPERLANE_ACCOUNTS
\* configured for N, without C's id; no account of another network is in it.
C5_TrustWithinNetwork ==
    \A k \in 1..Len(stacks) :
        stacks[k].kind = "signature" =>
            LET all == CORE_ACCOUNTS \o CUSTOMER_ACCOUNTS
                SameNetworkNotHost(a) ==
                    /\ PoolNetwork(a) = Some(stacks[k].network)
                    /\ a.id # stacks[k].account
                expected == SelectSeq(all, SameNetworkNotHost)
            IN  /\ \E c \in Elements(CORE_ACCOUNTS) :
                      c.id = stacks[k].account
                          /\ PoolNetwork(c) = Some(stacks[k].network)
                /\ stacks[k].trustedAccountIds =
                       [j \in 1..Len(expected) |-> expected[j].id]

\* a storage with a granted account, in a registry that also holds an
\* account of another network with another id
C5_Witness ==
    \E k \in 1..Len(stacks) :
        /\ stacks[k].kind = "signature"
        /\ Len(stacks[k].trustedAccountIds) >= 1
        /\ \E a \in Elements(CORE_ACCOUNTS \o CUSTOMER_ACCOUNTS) :
              /\ PoolNetwork(a).given
              /\ PoolNetwork(a) # Some(stacks[k].network)
              /\ a.id # stacks[k].account

\* the trust group of a network: the host of its signature storage and the
\* accounts granted on it
TrustGroup(n) ==
    IF Has(signatureBuckets, n)
    THEN {signatureBuckets[n].account}
             \cup Elements(signatureBuckets[n].trustedAccountIds)
    ELSE {}

DistinctAccountIds ==
    LET all == CORE_ACCOUNTS \o CUSTOMER_ACCOUNTS
    IN  \A j, k \in 1..Len(all) : j # k => all[j].id # all[k].id

\* C6 as stated: once the signature loop has run over the core accounts,
\* every account of the registry is in the trust group of exactly one
\* network, its own.
C6_Original ==
    (SignatureLoopDone /\ Len(CORE_ACCOUNTS) > 0) =>
        \A a \in Elements(CORE_ACCOUNTS \o CUSTOMER_ACCOUNTS) :
            PoolNetwork(a).given =>
                {n \in NetworkType : a.id \in TrustGroup(n)}
                    = {PoolNetwork(a).value}

\* C6 amended: in a registry with pairwise distinct ids, once the signature
\* loop is done, an account is in the trust group of no network but its
\* own, and it is in that one exactly when a core account is configured for
\* that network.
C6_AtMostOwnTrustGroup ==
    (SignatureLoopDone /\ DistinctAccountIds) =>
        \A a \in Elements(CORE_ACCOUNTS \o CUSTOMER_ACCOUNTS) :
            /\ \A n \in NetworkType :
                  a.id \in TrustGroup(n) => PoolNetwork(a) = Some(n)
            /\ PoolNetwork(a).given =>
                  (a.id \in TrustGroup(PoolNetwork(a).value)
                      <=> \E c \in Elements(CORE_ACCOUNTS) :
                              PoolNetwork(c) = PoolNetwork(a))

\* a customer account granted on the storage of its network, next to a
\* storage of another network
C6_Witness ==
    /\ SignatureLoopDone
    /\ DistinctAccountIds
    /\ Has(signatureBuckets, Devnet)
    /\ Has(signatureBuckets, Testnet)
    /\ \E a \in Elements(CUSTOMER_ACCOUNTS) :
          a.id \in Elements(signatureBuckets[Testnet].trustedAccountIds)

----------------------------------------------------------------------------
(* Specification of the run over registries with agents *)

PlanRegistries ==
    { <<(<<Ross, SovTestnet>>), (<<HypTestnet>>)>>,
      <<(<<Ross>>), (<<SovTestnet>>)>>,
      <<(<<SovTestnet, Ross>>), (<<>>)>>,
      <<(<<Ross, SovTestnet>>), (<<Twin>>)>>,
      <<(<<SovTestnet, HypTestnet>>), (<<>>)>> }

RelayerPool ==
    { [accountId |-> SovTestnetId, uniqueId |-> <<"r","e","l","a","y","e","r","-","1">>,
       chains |-> <<<<"s","o","v">>, <<"e","t","h">>>>],
      [accountId |-> HypTestnetId, uniqueId |-> <<"r","e","l","a","y","e","r","-","1">>,
       chains |-> <<<<"e","t","h">>>>],
      [accountId |-> RossId, uniqueId |-> <<"v","a","l","i","d","a","t","o","r","-","s","o","v","-","1">>,
       chains |-> <<>>],
      [accountId |-> UnknownId, uniqueId |-> <<"r","e","l","a","y","e","r","-","2">>,
       chains |-> <<<<"s","o","v">>>>],
      [accountId |-> SovTestnetId, uniqueId |-> <<"r","e","l","a","y","e","r","-","3">>,
       chains |-> <<<<"e","t","h">>>>] }

\* the validator sets are results of build()
SetPool ==
    { BuildTuples(<<"s","o","v">>, <<(RossId), (SovTestnetId)>>),
      BuildTuples(<<"s","o","v">>, <<(SovTestnetId), (RossId)>>),
      BuildTuples(<<"e","t","h">>, <<(UnknownId)>>) }

InitPlan ==
    /\ \E r \in PlanRegistries :
          CORE_ACCOUNTS = r[1] /\ CUSTOMER_ACCOUNTS = r[2]
    /\ relayerConfigs \in ListsUpTo(RelayerPool, MaxRelayers)
    /\ validatorSets \in ListsUpTo(SetPool, MaxSets)
    /\ InitRun
    /\ BuilderIdle /\ AccountIdle /\ IdIdle /\ WalletIdle

NextPlan ==
    \/ SignatureStep
    \/ BaseStep
    \/ RelayerStep
    \/ KeyStep
    \/ ValidatorStep

SpecPlan == InitPlan /\ [][NextPlan]_vars

\* the agent stacks of the app
Agents == SelectSeq(stacks, LAMBDA st : st.kind = "agent")

\* C3: in an emitted plan the uniqueIds of the relayer and validator agents
\* are pairwise different; a configuration with a duplicate fails before
\* the plan is emitted.
C3_UniqueAgentIds ==
    pc = "done" =>
        \A j, k \in 1..Len(Agents) :
            j # k => Agents[j].uniqueId # Agents[k].uniqueId

\* the relayers and validators of the configuration
ConfiguredAgents == relayerConfigs \o Flat(validatorSets)

DistinctUniqueIds ==
    \A j, k \in 1..Len(ConfiguredAgents) :
        j # k => ConfiguredAgents[j].uniqueId # ConfiguredAgents[k].uniqueId

\* the accountId names an account of the registry whose network resolves
Resolves(accountId) ==
    /\ getAccountById(accountId).ok
    /\ getNetworkType(getAccountById(accountId).value).ok

\* C11: in a configuration with pairwise distinct account ids and pairwise
\* distinct agent uniqueIds, the stack identity computed for the unit about
\* to be deployed (base infrastructure, relayer, validator key unit,
\* validator) differs from the identity of every unit deployed before it.
C11_CollisionFree ==
    (DistinctAccountIds /\ DistinctUniqueIds) =>
        /\ (pc = "base" /\ getNetworkType(HYPERLANE_ACCOUNTS[idx]).ok) =>
               ~IdInUse(BaseStackId(HYPERLANE_ACCOUNTS[idx]))
        /\ (pc = "relayers" /\ Resolves(relayerConfigs[idx].accountId)) =>
               ~IdInUse(RelayerStackId(relayerConfigs[idx]))
        /\ (pc = "keys" /\ Resolves(validatorAccounts[idx].accountId)) =>
               ~IdInUse(ValidatorKeyStackId(validatorAccounts[idx].accountId))
        /\ (pc = "validators" /\ Resolves(Flat(validatorSets)[idx].accountId)) =>
               ~IdInUse(ValidatorStackId(Flat(validatorSets)[idx]))

\* the signature stacks of network n
SignatureStacksOf(n) ==
    {k \in 1..Len(stacks) :
        stacks[k].kind = "signature" /\ stacks[k].network = n}

\* C12: once the signature loop has run over the core accounts, every
\* network has at most one signature stack, the stack recorded for a
\* network is that one, and every agent of the network is bound to the
\* bucket of the stack recorded for it.
C12_StoragePerNetwork ==
    SignatureLoopDone =>
        /\ \A n \in NetworkType : Cardinality(SignatureStacksOf(n)) <= 1
        /\ \A n \in NetworkType :
              Has(signatureBuckets, n) <=> SignatureStacksOf(n) # {}
        /\ \A n \in DOMAIN signatureBuckets :
              \A k \in SignatureStacksOf(n) : signatureBuckets[n] = stacks[k]
        /\ \A k \in 1..Len(Agents) :
              /\ Has(signatureBuckets, Agents[k].network)
              /\ Agents[k].bucket = signatureBuckets[Agents[k].network].bucket

\* an emitted plan with a relayer and a validator of two accounts of one
\* network, bound to the one bucket of that network, next to another
\* network's storage
C12_Witness ==
    /\ pc = "done"
    /\ Cardinality(DOMAIN signatureBuckets) = 2
    /\ \E j, k \in 1..Len(Agents) :
          /\ Agents[j].agentType = Relayer
          /\ Agents[k].agentType = Validator
          /\ Agents[j].account # Agents[k].account
          /\ Agents[j].network = Agents[k].network
          /\ Agents[j].bucket = signatureBuckets[Agents[j].network].bucket
          /\ Agents[k].bucket = Agents[j].bucket

\* the bucket name of a network's signature storage
SignatureBucketName(n) ==
    <<"h","y","p","e","r","l","a","n","e","-","s","i","g","n","a","t","u","r","e","s","-">> \o n

\* C13: in an emitted plan there is one agent per relayer route and per
\* validator tuple, in configured order; it is deployed into the account
\* its accountId names, its network is the network that account is
\* configured for, and its bucket is the bucket of the signature stack of
\* that network, which exists.
C13_ConsistentBinding ==
    pc = "done" =>
        /\ Len(Agents) = Len(ConfiguredAgents)
        /\ \A k \in 1..Len(Agents) :
              LET agent == Agents[k]
                  conf == ConfiguredAgents[k]
              IN  /\ agent.uniqueId = conf.uniqueId
                  /\ agent.account = conf.accountId
                  /\ \E a \in Elements(CORE_ACCOUNTS \o CUSTOMER_ACCOUNTS) :
                        a.id = conf.accountId
                            /\ PoolNetwork(a) = Some(agent.network)
                  /\ agent.bucket.network = agent.network
                  /\ agent.bucket.bucketName = SignatureBucketName(agent.network)
                  /\ \E j \in 1..Len(stacks) :
                        /\ stacks[j].kind = "signature"
                        /\ stacks[j].network = agent.network
                        /\ stacks[j].bucket = agent.bucket

\* an emitted plan with agents of two networks, one of them in an account
\* that does not host the storage it is bound to
C13_Witness ==
    /\ pc = "done"
    /\ \E j, k \in 1..Len(Agents) :
          /\ Agents[j].network # Agents[k].network
          /\ Agents[j].account # Agents[j].bucket.account
          /\ Agents[j].account = ConfiguredAgents[j].accountId
          /\ Agents[j].bucket.network = Agents[j].network
          /\ Agents[k].bucket.network = Agents[k].network

\* the accountId is the id of an account of the registry
InRegistry(accountId) ==
    \E a \in Elements(CORE_ACCOUNTS \o CUSTOMER_ACCOUNTS) : a.id = accountId

\* C14: a configuration with a relayer route or a validator tuple whose
\* accountId is the id of no account of the registry never reaches an
\* emitted plan, and no agent stack is ever created for an account that is
\* not in the registry.
C14_UnresolvedAccountIsFatal ==
    /\ (\E k \in 1..Len(ConfiguredAgents) :
            ~InRegistry(ConfiguredAgents[k].accountId)) => pc # "done"
    /\ \A k \in 1..Len(Agents) : InRegistry(Agents[k].account)

\* the run ended with an error at the second relayer, whose account is
\* unknown, after the first relayer was deployed
C14_Witness ==
    /\ pc = "error"
    /\ validatorSets = <<>>
    /\ Len(relayerConfigs) = 2
    /\ idx = 2
    /\ ~InRegistry(relayerConfigs[2].accountId)
    /\ Len(Agents) = 1
    /\ Agents[1].uniqueId = relayerConfigs[1].uniqueId

\* C15: no relayer agent stack, and with it no signer secret, is ever
\* created for a relayer route whose chains list is empty (the relayer
\* agents are the first agents of the app, in the order of relayerConfigs).
C15_EmptyChainsRejected ==
    \A k \in 1..Len(Agents) :
        Agents[k].agentType = Relayer =>
            /\ Agents[k].uniqueId = relayerConfigs[k].uniqueId
            /\ Len(relayerConfigs[k].chains) > 0

\* C16: the environment of every relayer agent holds HYP_RELAYCHAINS, whose
\* pieces between the commas are the chains of its route in configured
\* order; the chains sov, eth give the literal "sov,eth".
C16_RelayChainsJoined ==
    \A k \in 1..Len(Agents) :
        Agents[k].agentType = Relayer =>
            LET env == Agents[k].environment
                route == relayerConfigs[k]
            IN  /\ Has(env, "HYP_RELAYCHAINS")
                /\ Len(route.chains) > 0 =>
                       split(env["HYP_RELAYCHAINS"], ",") = route.chains
                /\ Len(route.chains) = 0 => env["HYP_RELAYCHAINS"] = <<>>
                /\ route.chains = <<(<<"s","o","v">>), (<<"e","t","h">>)>> =>
                       env["HYP_RELAYCHAINS"] = <<"s","o","v",",","e","t","h">>

\* an emitted plan with the relayer of the chains sov, eth
C16_Witness ==
    /\ pc = "done"
    /\ \E k \in 1..Len(Agents) :
          /\ Agents[k].agentType = Relayer
          /\ relayerConfigs[k].chains = <<(<<"s","o","v">>), (<<"e","t","h">>)>>
          /\ Agents[k].environment["HYP_RELAYCHAINS"] = <<"s","o","v",",","e","t","h">>

----------------------------------------------------------------------------
(* Specification of agent stacks constructed from arbitrary props *)

TestStackIds ==
    { <<"T","e","s","t","R","e","l","a","y","e","r">>,
      <<"T","e","s","t","V","a","l","i","d","a","t","o","r">> }

TestUniqueIds ==
    { <<"r","e","l","a","y","e","r","-","t","e","s","t","-","1">>,
      <<"v","a","l","i","d","a","t","o","r","-","s","o","v","-","1">> }

\* the bucket of the devnet signature stack hosted by the core account
TestBucket == SignatureStack(SignatureStackId(Ross), Ross, Devnet, <<>>).bucket

\* per-agent environments: none, empty, the ones of the agent loops, and
\* ones that define keys the constructor sets itself
EnvironmentPool ==
    { Undefined,
      Some(<<>>),
      Some([HYP_RELAYCHAINS |-> <<"s","o","v",",","e","t","h">>]),
      Some([HYP_ORIGINCHAINNAME |-> <<"s","o","v">>]),
      Some([HYP_RELAYCHAINS |-> <<"e","t","h">>,
            HYP_DB |-> <<"/","t","m","p">>,
            RUST_LOG |-> <<"d","e","b","u","g">>]),
      Some([HYP_ORIGINCHAINNAME |-> <<"e","t","h">>,
            NO_COLOR |-> <<"0">>,
            HYP_CHECKPOINTSYNCER_FOLDER |-> <<"s","h","a","r","e","d">>]),
      Some([HYP_RELAYCHAINS |-> <<"s","o","v",",","s","o","v">>]),
      Some([HYP_RELAYCHAINS |-> <<>>,
            HYP_ORIGINCHAINNAME |-> <<"s","o","v">>]) }

AgentPropsPool ==
    { [uniqueId |-> u, agentType |-> t, bucket |-> TestBucket,
       validatorKey |-> IF hasKey THEN Some(<<"a","l","i","a","s","/">> \o u)
                        ELSE Undefined,
       validatorWalletAccess |-> w,
       environment |-> e, tags |-> <<>>] :
        u \in TestUniqueIds, t \in {Relayer, Validator},
        hasKey \in BOOLEAN, w \in BOOLEAN, e \in EnvironmentPool }

InitAgent ==
    /\ relayerConfigs = <<>> /\ validatorSets = <<>>
    /\ pc = "agents" /\ idx = 1
    /\ signatureBuckets = <<>> /\ baseStacks = <<>>
    /\ validatorKeyStacks = <<>> /\ stacks = <<>>
    /\ BuilderIdle /\ RegistryIdle /\ AccountIdle /\ IdIdle /\ WalletIdle

NextAgent ==
    \E stackId \in TestStackIds, props \in AgentPropsPool :
        NewAgentStack(stackId, Ross.id, Devnet, props)

SpecAgent == InitAgent /\ [][NextAgent]_vars

\* C17: every key the per-agent environment of the props defines has the
\* per-agent value in the environment of the agent, and the default keys
\* HYP_DB and NO_COLOR are always present.
C17_OverridesWin ==
    \A k \in 1..Len(Agents) :
        LET given == IF Agents[k].props.environment.given
                     THEN Agents[k].props.environment.value ELSE <<>>
            env == Agents[k].environment
        IN  /\ \A key \in DOMAIN given :
                  Has(env, key) /\ env[key] = given[key]
            /\ Has(env, "HYP_DB") /\ Has(env, "NO_COLOR")

----------------------------------------------------------------------------
(* The environment of the agents of the plan *)

ValidatorOnlyKeys ==
    {"HYP_VALIDATOR_TYPE", "HYP_VALIDATOR_ID", "HYP_CHECKPOINTSYNCER_TYPE",
     "HYP_CHECKPOINTSYNCER_BUCKET", "HYP_CHECKPOINTSYNCER_FOLDER"}

\* the key stack of the account holds a key config with this alias
KeyStackHasAlias(accountId, alias) ==
    \E j \in 1..Len(stacks) :
        /\ stacks[j].kind = "key"
        /\ stacks[j].account = accountId
        /\ \E c \in 1..Len(stacks[j].configs) : stacks[j].configs[c].alias = alias

KeylessValidatorProps ==
    {props \in AgentPropsPool :
        /\ props.agentType = Validator
        /\ ~props.validatorKey.given
        /\ props.validatorWalletAccess =>
               (props.environment.given
                    /\ Has(props.environment.value, "HYP_ORIGINCHAINNAME"))}

\* C19: constructing a validator without a key under an unused stack id
\* adds the agent stack and leaves the run going; such an agent has exactly
\* one warning, the missing validator key, and neither HYP_VALIDATOR_TYPE
\* nor HYP_VALIDATOR_ID; a validator with a key and a relayer have no
\* warning.
C19_MissingKeyIsWarning ==
    /\ \A stackId \in TestStackIds, props \in KeylessValidatorProps :
          (pc = "agents" /\ Len(stacks) < MaxAgents /\ ~IdInUse(stackId)) =>
              ENABLED (/\ NewAgentStack(stackId, Ross.id, Devnet, props)
                       /\ pc' = "agents"
                       /\ Len(stacks') = Len(stacks) + 1)
    /\ \A k \in 1..Len(Agents) :
          IF Agents[k].agentType = Validator /\ ~Agents[k].validatorKey.given
          THEN /\ Agents[k].warnings = <<MissingValidatorKey>>
               /\ ~Has(Agents[k].environment, "HYP_VALIDATOR_TYPE")
               /\ ~Has(Agents[k].environment, "HYP_VALIDATOR_ID")
          ELSE Agents[k].warnings = <<>>

\* a validator without a key, with its warning, constructed next to a
\* validator with a key
C19_Witness ==
    /\ pc = "agents"
    /\ \E j, k \in 1..Len(Agents) :
          /\ Agents[j].agentType = Validator /\ ~Agents[j].validatorKey.given
          /\ Agents[j].warnings = <<MissingValidatorKey>>
          /\ Agents[k].agentType = Validator /\ Agents[k].validatorKey.given
          /\ Agents[k].warnings = <<>>

----------------------------------------------------------------------------
(* Specification of one call of duplexValidatorSet *)

InitDuplex ==
    /\ duplexArgs \in { Some([chains |-> <<a, b>>, accountIds |-> ids]) :
                          a \in Chains, b \in Chains,
                          ids \in ListsUpTo(AccountIds, MaxDuplexAccounts) }
    /\ duplexResult = Undefined
    /\ chain = <<>> /\ size = DefaultSize /\ accounts = <<>>
    /\ buildResult = NoResult /\ addCalls = <<>> /\ addCallsAtBuild = <<>>
    /\ RegistryIdle /\ AccountIdle /\ IdIdle /\ PlanIdle /\ WalletIdle

NextDuplex == CallDuplexValidatorSet

SpecDuplex == InitDuplex /\ [][NextDuplex]_vars

\* C20: for chains [A, B] and a list of exactly 3 accounts the call returns
\* two sets, the first of chain A and the second of chain B, each with the
\* accounts of the list at positions 1, 2, 3 and the uniqueIds
\* validator-<chain>-1, -2, -3; for a list of any other length the call
\* fails and returns no set.
C20_DuplexSets ==
    duplexResult.given =>
        LET chains == duplexArgs.value.chains
            accountIds == duplexArgs.value.accountIds
            result == duplexResult.value
            numerals == <<(<<"1">>), (<<"2">>), (<<"3">>)>>
        IN  IF Len(accountIds) = 3
            THEN /\ result.ok
                 /\ Len(result.value) = 2
                 /\ \A s \in 1..2 :
                       /\ Len(result.value[s]) = 3
                       /\ \A n \in 1..3 :
                             /\ result.value[s][n].chain = chains[s]
                             /\ result.value[s][n].accountId = accountIds[n]
                             /\ result.value[s][n].uniqueId =
                                    <<"v","a","l","i","d","a","t","o","r","-">>
                                        \o chains[s] \o <<"-">> \o numerals[n]
            ELSE /\ ~result.ok
                 /\ result.value = <<>>

\* a call with two different chains and three different accounts that
\* returned its two sets
C20_Witness ==
    /\ duplexResult.given
    /\ duplexResult.value.ok
    /\ duplexArgs.value.chains[1] # duplexArgs.value.chains[2]
    /\ Cardinality(Elements(duplexArgs.value.accountIds)) = 3
    /\ Len(duplexResult.value.value) = 2
    /\ duplexResult.value.value[2][3].uniqueId =
           <<"v","a","l","i","d","a","t","o","r","-">>
               \o duplexArgs.value.chains[2] \o <<"-","3">>

----------------------------------------------------------------------------
(* The plan as a function of the configuration *)

\* the positions of Flat(validatorSets) where an accountId occurs first
FirstPositions ==
    LET flat == Flat(validatorSets)
    IN  {k \in 1..Len(flat) :
            \A j \in 1..(k - 1) : flat[j].accountId # flat[k].accountId}

\* the accountIds of the validators in first-occurrence order
AccountsInFirstOccurrenceOrder ==
    [n \in 1..Cardinality(FirstPositions) |->
        Flat(validatorSets)[
            CHOOSE k \in FirstPositions :
                Cardinality({j \in FirstPositions : j < k}) = n - 1].accountId]

\* the stack identities of the plan of a configuration, in order
ExpectedStackIds ==
    LET all == CORE_ACCOUNTS \o CUSTOMER_ACCOUNTS
        flat == Flat(validatorSets)
    IN  <<EcrStack.id>>
        \o [k \in 1..Len(CORE_ACCOUNTS) |-> SignatureStackId(CORE_ACCOUNTS[k])]
        \o [k \in 1..Len(all) |-> BaseStackId(all[k])]
        \o [k \in 1..Len(relayerConfigs) |-> RelayerStackId(relayerConfigs[k])]
        \o [k \in 1..Len(AccountsInFirstOccurrenceOrder) |->
               ValidatorKeyStackId(AccountsInFirstOccurrenceOrder[k])]
        \o [k \in 1..Len(flat) |-> ValidatorStackId(flat[k])]

\* the environment of the agent of a relayer route or validator tuple
ExpectedEnvironment(conf) ==
    IF "chains" \in DOMAIN conf
    THEN [HYP_RELAYCHAINS |-> join(conf.chains, <<",">>),
          HYP_DB |-> <<"/","d","a","t","a">>, NO_COLOR |-> <<"1">>]
    ELSE [HYP_ORIGINCHAINNAME |-> conf.chain,
          HYP_DB |-> <<"/","d","a","t","a">>, NO_COLOR |-> <<"1">>,
          HYP_VALIDATOR_TYPE |-> <<"a","w","s">>,
          HYP_VALIDATOR_ID |-> <<"a","l","i","a","s","/">> \o conf.uniqueId,
          HYP_CHECKPOINTSYNCER_TYPE |-> <<"s","3">>,
          HYP_CHECKPOINTSYNCER_BUCKET |->
              SignatureBucketName(
                  getNetworkType(getAccountById(conf.accountId).value).value),
          HYP_CHECKPOINTSYNCER_FOLDER |-> conf.uniqueId]

KeyStacks == SelectSeq(stacks, LAMBDA st : st.kind = "key")
SignatureStacks == SelectSeq(stacks, LAMBDA st : st.kind = "signature")

\* C21: an emitted plan is a function of the configuration alone: its
\* stacks have the identities ExpectedStackIds in that order, the trusted
\* list of the k-th signature stack is the one computed from the registry
\* for the k-th core account, the environment of the k-th agent is the one
\* of the k-th configured agent, and the key stacks are in first-occurrence
\* order of the accountIds, each with its validators in configured order.
C21_PlanIsFunctionOfConfiguration ==
    pc = "done" =>
        /\ [k \in 1..Len(stacks) |-> stacks[k].id] = ExpectedStackIds
        /\ \A k \in 1..Len(SignatureStacks) :
              SignatureStacks[k].trustedAccountIds =
                  trustedAccountIds(
                      accountsForNetwork(getNetworkType(CORE_ACCOUNTS[k]).value).value,
                      CORE_ACCOUNTS[k])
        /\ \A k \in 1..Len(Agents) :
              Agents[k].environment = ExpectedEnvironment(ConfiguredAgents[k])
        /\ [k \in 1..Len(KeyStacks) |-> KeyStacks[k].account]
               = AccountsInFirstOccurrenceOrder
        /\ \A k \in 1..Len(KeyStacks) :
              [c \in 1..Len(KeyStacks[k].configs) |-> KeyStacks[k].configs[c].alias]
                  = LET OfAccount(v) == v.accountId = KeyStacks[k].account
                        own == SelectSeq(Flat(validatorSets), OfAccount)
                    IN  [c \in 1..Len(own) |-> own[c].uniqueId]

\* an emitted plan with a relayer and two key stacks, the first of an
\* account whose id is the numerically larger one
C21_Witness ==
    /\ pc = "done"
    /\ Len(relayerConfigs) > 0
    /\ Len(KeyStacks) = 2
    /\ NumLess(KeyStacks[2].account, KeyStacks[1].account)
    /\ \E k \in 1..Len(KeyStacks) : Len(KeyStacks[k].configs) = 2

----------------------------------------------------------------------------
(* Signer secrets *)

\* the binding of the wallet secret of chain c
ExpectedSecretName(c) ==
    <<"h","y","p","e","r","l","a","n","e","/">> \o c \o <<"/","w","a","l","l","e","t">>

\* C22: a relayer agent of a route with chains c1..cn has exactly n secret
\* bindings, the i-th of the secret "hyperlane/" + ci + "/wallet" exposed as
\* HYP_CHAINS_<ci in upper case>_SIGNER_KEY; a validator agent has one
\* binding, of its origin chain, when validatorWalletAccess is set and
\* none otherwise.
C22_SecretsPerChain ==
    \A k \in 1..Len(Agents) :
        LET agent == Agents[k]
        IN  IF agent.agentType = Relayer
            THEN LET chains == relayerConfigs[k].chains
                 IN  /\ Len(agent.secrets) = Len(chains)
                     /\ \A i \in 1..Len(chains) :
                           /\ agent.secrets[i].secretName = ExpectedSecretName(chains[i])
                           /\ agent.secrets[i].envVar =
                                  <<"H","Y","P","_","C","H","A","I","N","S","_">>
                                      \o toUpperCase(chains[i])
                                      \o <<"_","S","I","G","N","E","R","_","K","E","Y">>
            ELSE IF agent.props.validatorWalletAccess
            THEN /\ Len(agent.secrets) = 1
                 /\ agent.secrets[1].secretName =
                        ExpectedSecretName(ConfiguredAgents[k].chain)
            ELSE agent.secrets = <<>>

----------------------------------------------------------------------------
(* Keys and validators *)

\* the validator tuples have pairwise distinct uniqueIds
DistinctValidatorUniqueIds ==
    LET flat == Flat(validatorSets)
    IN  \A j, k \in 1..Len(flat) : j # k => flat[j].uniqueId # flat[k].uniqueId

\* the (account, alias) pairs of all key stacks
KeyAliasPairs ==
    UNION { { <<KeyStacks[j].account, KeyStacks[j].keys[u]>> :
                  u \in DOMAIN KeyStacks[j].keys } : j \in 1..Len(KeyStacks) }

RECURSIVE KeyAliasCount(_)
KeyAliasCount(j) ==
    IF j = 0 THEN 0
    ELSE Cardinality(DOMAIN KeyStacks[j].keys) + KeyAliasCount(j - 1)

\* C23: when the validator uniqueIds are pairwise distinct, once the key
\* stacks are built their aliases correspond one to one to the validator
\* tuples, the alias "alias/" + uniqueId being in the key stack of the
\* tuple's account, and every validator agent is given the alias of its
\* own uniqueId.
C23_KeysMatchValidators ==
    DistinctValidatorUniqueIds =>
        LET flat == Flat(validatorSets)
        IN  /\ pc \in {"validators", "done"} =>
                  /\ KeyAliasPairs =
                         { <<flat[k].accountId,
                             <<"a","l","i","a","s","/">> \o flat[k].uniqueId>> :
                               k \in 1..Len(flat) }
                  /\ KeyAliasCount(Len(KeyStacks)) = Len(flat)
                  /\ \A i, j \in 1..Len(KeyStacks) :
                         i # j => KeyStacks[i].account # KeyStacks[j].account
            /\ \A k \in 1..Len(Agents) :
                  Agents[k].agentType = Validator =>
                      /\ Agents[k].validatorKey.given
                      /\ Agents[k].validatorKey.value =
                             <<"a","l","i","a","s","/">> \o Agents[k].uniqueId
                      /\ Agents[k].warnings = <<>>

\* an emitted plan with two validators of distinct uniqueIds in two
\* accounts, each given its key
C23_Witness ==
    /\ pc = "done"
    /\ DistinctValidatorUniqueIds
    /\ Len(KeyStacks) = 2
    /\ \E j, k \in 1..Len(Agents) :
          /\ Agents[j].agentType = Validator
          /\ Agents[k].agentType = Validator
          /\ Agents[j].account # Agents[k].account
          /\ Agents[j].validatorKey.given
          /\ Agents[k].validatorKey.given

----------------------------------------------------------------------------
(* Two validator sets of one chain *)

\* the validator the validator loop is at has the uniqueId of a validator
\* agent built before, and every lookup of its iteration succeeds
CollidingValidatorAtHand ==
    /\ pc = "validators"
    /\ LET validator == Flat(validatorSets)[idx]
           found == getAccountById(validator.accountId)
           network == getNetworkType(found.value)
       IN  /\ \E k \in 1..Len(Agents) :
                  /\ Agents[k].agentType = Validator
                  /\ Agents[k].uniqueId = validator.uniqueId
           /\ found.ok
           /\ network.ok
           /\ Has(baseStacks, found.value.id)
           /\ Has(signatureBuckets, network.value)
           /\ ~IdInUse(ValidatorStackId(validator))

----------------------------------------------------------------------------
(* accountsForNetwork *)

\* the positions of the registry up to p whose account is configured for
\* network n
PositionsOn(n, p) ==
    {i \in 1..p : PoolNetwork(HYPERLANE_ACCOUNTS[i]) = Some(n)}

\* C25: accountsForNetwork(n) fails when some account of HYPERLANE_ACCOUNTS
\* has no resolvable network, whatever n is; otherwise it returns exactly
\* the accounts of HYPERLANE_ACCOUNTS on network n, in registry order.
C25_AccountsForNetwork ==
    \A n \in NetworkType :
        LET result == accountsForNetwork(n)
            all == Len(HYPERLANE_ACCOUNTS)
        IN  IF \E i \in 1..all : PoolNetwork(HYPERLANE_ACCOUNTS[i]) = Undefined
            THEN ~result.ok
            ELSE /\ result.ok
                 /\ Len(result.value) = Cardinality(PositionsOn(n, all))
                 /\ \A p \in PositionsOn(n, all) :
                        result.value[Cardinality(PositionsOn(n, p))]
                            = HYPERLANE_ACCOUNTS[p]

\* the run ended at the first signature storage, whose host resolves to
\* devnet, because a customer account has no resolvable network
C25_Witness ==
    /\ pc = "error"
    /\ Len(stacks) = 1
    /\ Len(CORE_ACCOUNTS) > 0
    /\ CORE_ACCOUNTS[1] = Ross
    /\ \A i \in 1..Len(CORE_ACCOUNTS) : CORE_ACCOUNTS[i] # Unresolvable
    /\ \E i \in 1..Len(CUSTOMER_ACCOUNTS) : CUSTOMER_ACCOUNTS[i] = Unresolvable
    /\ ~accountsForNetwork(Devnet).ok

----------------------------------------------------------------------------
(* Order of construction *)

\* stacks lists the stacks in the order of their construction: a stack of
\* this kind for this account was constructed before position p
BuiltBefore(p, kind, accountId) ==
    \E q \in 1..(p - 1) : stacks[q].kind = kind /\ stacks[q].account = accountId

\* C26: an agent stack is constructed after the base stack of its account
\* and after the signature stack of its network, a validator agent stack
\* also after the key stack of its account, and after the first validator
\* agent stack no base, signature or key stack is constructed.
C26_ConstructionOrder ==
    \A p \in 1..Len(stacks) :
        stacks[p].kind = "agent" =>
            /\ BuiltBefore(p, "base", stacks[p].account)
            /\ \E q \in 1..(p - 1) :
                  /\ stacks[q].kind = "signature"
                  /\ stacks[q].network = stacks[p].network
            /\ stacks[p].agentType = Validator =>
                  /\ BuiltBefore(p, "key", stacks[p].account)
                  /\ \A q \in (p + 1)..Len(stacks) :
                         stacks[q].kind \notin {"base", "signature", "key"}

\* an emitted plan with a relayer agent and two validator agents of two
\* accounts
C26_Witness ==
    /\ pc = "done"
    /\ \E r, j, k \in 1..Len(stacks) :
          /\ stacks[r].kind = "agent" /\ stacks[r].agentType = Relayer
          /\ stacks[j].kind = "agent" /\ stacks[j].agentType = Validator
          /\ stacks[k].kind = "agent" /\ stacks[k].agentType = Validator
          /\ stacks[j].account # stacks[k].account
          /\ BuiltBefore(j, "key", stacks[j].account)
          /\ BuiltBefore(k, "key", stacks[k].account)

----------------------------------------------------------------------------
(* build() and the state of the builder *)

\* a step that is a call of build(): a result is recorded and no
\* addAccount call is logged (the constructor records no result)
BuildStep == buildResult'.called /\ addCalls' = addCalls

\* C27: build() leaves the accumulator, the chain and the size of the
\* builder as they were, whether it succeeds or fails; a build() directly
\* after a build() returns the same result; a build() after a successful
\* build() and an addAccount fails, and so does every build() after a
\* build() that failed for too many accounts.
C27_BuildLeavesBuilderUnchanged ==
    [][BuildStep =>
          /\ accounts' = accounts /\ chain' = chain /\ size' = size
          /\ accounts' = addCalls
          /\ (buildResult.called /\ addCallsAtBuild = addCalls) =>
                 buildResult' = buildResult
          /\ (buildResult.ok /\ addCallsAtBuild # addCalls) =>
                 (~buildResult'.ok /\ buildResult'.validators = <<>>)
          /\ (buildResult.called /\ ~buildResult.ok
                  /\ Len(addCallsAtBuild) > size) =>
                 (~buildResult'.ok /\ buildResult'.validators = <<>>)]_vars

\* build() failed for a builder holding one account more than its size,
\* its accumulator still holding every account added
C27_Witness ==
    /\ buildResult.called
    /\ ~buildResult.ok
    /\ size > 0
    /\ Len(addCallsAtBuild) = size + 1
    /\ accounts = addCalls
    /\ addCallsAtBuild = addCalls

----------------------------------------------------------------------------
(* Grants on the signature storage *)

\* C28: the task role of every agent is granted read on the signature
\* bucket the agent is bound to, and write exactly when the agent is a
\* validator; a relayer's task role is never granted write.
C28_WriteOnlyForValidators ==
    \A k \in 1..Len(Agents) :
        LET agent == Agents[k]
        IN  /\ agent.bucket = agent.props.bucket
            /\ "read" \in agent.bucketGrants
            /\ "write" \in agent.bucketGrants <=> agent.agentType = Validator
            /\ agent.agentType = Relayer => agent.bucketGrants = {"read"}
            /\ agent.agentType \in {Relayer, Validator}

\* an emitted plan with a relayer granted read only and a validator
\* granted read and write on the storage of one network
C28_Witness ==
    /\ pc = "done"
    /\ \E r, v \in 1..Len(Agents) :
          /\ Agents[r].agentType = Relayer
          /\ Agents[r].bucketGrants = {"read"}
          /\ Agents[v].agentType = Validator
          /\ Agents[v].bucketGrants = {"read", "write"}
          /\ Agents[r].bucket = Agents[v].bucket

----------------------------------------------------------------------------
(* Specification of the run over relayer routes of arbitrary chain names *)

\* chain lists with plain names, a name holding a comma, an empty name and
\* a repeated name
ChainListPool ==
    { <<(<<"s","o","v">>)>>,
      <<(<<"s","o","v">>), (<<"e","t","h">>)>>,
      <<(<<"e","t","h">>), (<<"s","o","v">>)>>,
      <<(<<"a",",","b">>)>>,
      <<(<<"s","o","v">>), (<<"a",",","b">>)>>,
      <<(<<>>)>>,
      <<(<<>>), (<<"s","o","v">>)>>,
      <<(<<"s","o","v">>), (<<"s","o","v">>)>> }

RoutePool ==
    { [accountId |-> a, uniqueId |-> <<"r","e","l","a","y","e","r","-","1">>,
       chains |-> chains] : a \in {RossId, SovTestnetId}, chains \in ChainListPool }

InitRelayers ==
    /\ CORE_ACCOUNTS = <<Ross, SovTestnet>>
    /\ CUSTOMER_ACCOUNTS = <<HypTestnet>>
    /\ relayerConfigs \in ListsUpTo(RoutePool, MaxRelayers)
    /\ validatorSets = <<>>
    /\ InitRun
    /\ BuilderIdle /\ AccountIdle /\ IdIdle /\ WalletIdle

NextRelayers == SignatureStep \/ BaseStep \/ RelayerStep

SpecRelayers == InitRelayers /\ [][NextRelayers]_vars

\* every name of the list is non-empty and holds no comma
PlainNames(chains) ==
    \A i \in 1..Len(chains) :
        /\ chains[i] # <<>>
        /\ \A c \in 1..Len(chains[i]) : chains[i][c] # ","

\* C29: for a relayer route with a non-empty chains list of non-empty names
\* without comma, the list the agent stack recovers by splitting
\* HYP_RELAYCHAINS on "," is the chains list of the route, and so are the
\* chains its secrets are bound for.
C29_SplitRecoversChains ==
    \A k \in 1..Len(Agents) :
        LET route == relayerConfigs[k]
        IN  (Len(route.chains) > 0 /\ PlainNames(route.chains)) =>
                /\ RelayChains(Agents[k].props) = route.chains
                /\ [i \in 1..Len(Agents[k].secrets) |-> Agents[k].secrets[i].chain]
                       = route.chains

\* an emitted plan with the relayers of the chains sov, eth and eth, sov
C29_Witness ==
    /\ pc = "done"
    /\ \E j, k \in 1..Len(Agents) :
          /\ relayerConfigs[j].chains = <<(<<"s","o","v">>), (<<"e","t","h">>)>>
          /\ RelayChains(Agents[j].props) = relayerConfigs[j].chains
          /\ relayerConfigs[k].chains = <<(<<"e","t","h">>), (<<"s","o","v">>)>>
          /\ RelayChains(Agents[k].props) = relayerConfigs[k].chains

----------------------------------------------------------------------------
(* scripts/create-wallet-secrets.ts *)

\* const name = `hyperlane/${chain}/wallet`
WalletSecretName(c) ==
    <<"h","y","p","e","r","l","a","n","e","/">> \o c \o <<"/","w","a","l","l","e","t">>

\* Object.entries(walletConfigs[network]) of the run in progress
WalletEntries == walletConfigs[runNetworks[Len(runNetworks)]]

\* the answers to DescribeSecretCommand: the secret when it exists,
\* ResourceNotFoundException when it does not, or any other error
DescribeOutcomes(name) ==
    (IF Has(secretStore, name) THEN {"ok"} ELSE {"notFound"}) \cup {"error"}

\* the answers to CreateSecretCommand: the secret is created unless the
\* name is taken, or the command fails otherwise
CreateOutcomes(name) ==
    (IF Has(secretStore, name) THEN {"exists"} ELSE {"ok"}) \cup {"error"}

AfterDescribe_CreateOnAnyError(outcome) ==
    CASE outcome = "ok" -> "skip"
      [] OTHER -> "create"

\* the try/catch around the existence check: return when the secret
\* exists, go on to create it on ResourceNotFoundException, rethrow any
\* other error
AfterDescribe(outcome) ==
    CASE outcome = "ok" -> "skip"
      [] outcome = "notFound" -> "create"
      [] OTHER -> "throw"

\* the loop of deployWalletSecrets goes to its next entry, or the run ends
NextEntry ==
    IF walletIdx < Len(WalletEntries)
    THEN walletPc' = "describe" /\ walletIdx' = walletIdx + 1
    ELSE walletPc' = "idle" /\ walletIdx' = 1

WalletFrame ==
    UNCHANGED <<builderVars, registryVars, accountVars, idVars, planVars,
                walletConfigs>>

\* main(): a network other than mainnet and testnet ends the process,
\* otherwise deployWalletSecrets starts on the entries of the network
StartRun(network) ==
    /\ walletPc = "idle"
    /\ Len(runNetworks) < MaxRuns
    /\ runNetworks' = Append(runNetworks, network)
    /\ IF network \in {"mainnet", "testnet"} /\ Len(walletConfigs[network]) > 0
       THEN walletPc' = "describe"
       ELSE walletPc' = "idle"
    /\ walletIdx' = 1
    /\ UNCHANGED <<secretStore, sendLog, failed>>
    /\ WalletFrame

\* createSecret up to the answer to its existence check
DescribeStep ==
    /\ walletPc = "describe"
    /\ LET entry == WalletEntries[walletIdx]
           name == WalletSecretName(entry.chain)
       IN  \E outcome \in DescribeOutcomes(name) :
              /\ sendLog' = Append(sendLog,
                     [run |-> Len(runNetworks), command |-> "describe",
                      name |-> name, value |-> "", outcome |-> outcome])
              /\ CASE AfterDescribe(outcome) = "skip" ->
                          NextEntry /\ UNCHANGED failed
                   [] AfterDescribe(outcome) = "create" ->
                          /\ walletPc' = "create"
                          /\ UNCHANGED <<walletIdx, failed>>
                   [] OTHER ->
                          /\ failed' = Append(failed,
                                 [run |-> Len(runNetworks), chain |-> entry.chain])
                          /\ NextEntry
    /\ UNCHANGED <<secretStore, runNetworks>>
    /\ WalletFrame

\* createSecret from sending CreateSecretCommand on; an error is caught and
\* reported by the loop of deployWalletSecrets
CreateStep ==
    /\ walletPc = "create"
    /\ LET entry == WalletEntries[walletIdx]
           name == WalletSecretName(entry.chain)
       IN  \E outcome \in CreateOutcomes(name) :
              /\ sendLog' = Append(sendLog,
                     [run |-> Len(runNetworks), command |-> "create",
                      name |-> name, value |-> entry.privateKey,
                      outcome |-> outcome])
              /\ IF outcome = "ok"
                 THEN /\ secretStore' = Put(secretStore, name, entry.privateKey)
                      /\ UNCHANGED failed
                 ELSE /\ failed' = Append(failed,
                             [run |-> Len(runNetworks), chain |-> entry.chain])
                      /\ UNCHANGED secretStore
              /\ NextEntry
    /\ UNCHANGED runNetworks
    /\ WalletFrame

\* secrets/wallet-secrets.json: the entries of each network
WalletConfigPool ==
    { [mainnet |-> <<[chain |-> <<"s","o","v">>, privateKey |-> "k1"],
                     [chain |-> <<"e","t","h">>, privateKey |-> "k1"]>>,
       testnet |-> <<[chain |-> <<"e","t","h">>, privateKey |-> "k2"],
                     [chain |-> <<"s","o","v">>, privateKey |-> "k2"]>>],
      [mainnet |-> <<[chain |-> <<"s","o","v">>, privateKey |-> "k1"]>>,
       testnet |-> <<>>],
      [mainnet |-> <<[chain |-> <<"e","t","h">>, privateKey |-> "k1"]>>,
       testnet |-> <<[chain |-> <<"e","t","h">>, privateKey |-> "k2"]>>] }

\* the secrets manager before the first run: empty, or holding the wallet
\* of sov
StorePool == { <<>>, WalletSecretName(<<"s","o","v">>) :> "k0" }

NetworkArguments == {"mainnet", "testnet", "devnet"}

InitWallet ==
    /\ walletConfigs \in WalletConfigPool
    /\ secretStore \in StorePool
    /\ runNetworks = <<>>
    /\ walletPc = "idle"
    /\ walletIdx = 1
    /\ sendLog = <<>>
    /\ failed = <<>>
    /\ BuilderIdle /\ RegistryIdle /\ AccountIdle /\ IdIdle /\ PlanIdle

NextWallet ==
    \/ \E network \in NetworkArguments : StartRun(network)
    \/ DescribeStep
    \/ CreateStep

SpecWallet == InitWallet /\ [][NextWallet]_vars

\* the run r has gone past the entry i of its network
PastEntry(r, i) ==
    \/ r < Len(runNetworks)
    \/ walletPc = "idle"
    \/ i < walletIdx

\* C30: a create command is sent only directly after the existence check
\* of the same secret in the same run answered not-found; after a check
\* that found the secret or failed otherwise the next command is not a
\* create, and the other failure is reported; a secret is created at most
\* once, never when it existed before, and the secrets manager keeps the
\* value of that creation whatever later runs are configured with; every
\* entry of a run is checked, whatever happened to the entries before it.
C30_NeverOverwrites ==
    /\ \A p \in 1..Len(sendLog) :
          sendLog[p].command = "create" =>
              /\ p > 1
              /\ sendLog[p - 1].command = "describe"
              /\ sendLog[p - 1].outcome = "notFound"
              /\ sendLog[p - 1].name = sendLog[p].name
              /\ sendLog[p - 1].run = sendLog[p].run
              /\ \A q \in 1..(p - 1) :
                     sendLog[q].name = sendLog[p].name =>
                         sendLog[q].outcome # "ok"
    /\ \A p \in 1..Len(sendLog) :
          (sendLog[p].command = "describe" /\ sendLog[p].outcome # "notFound") =>
              /\ p < Len(sendLog) => sendLog[p + 1].command = "describe"
              /\ sendLog[p].outcome = "error" =>
                     \E f \in 1..Len(failed) :
                         /\ failed[f].run = sendLog[p].run
                         /\ WalletSecretName(failed[f].chain) = sendLog[p].name
    /\ \A name \in DOMAIN secretStore :
          LET creations == {p \in 1..Len(sendLog) :
                               /\ sendLog[p].command = "create"
                               /\ sendLog[p].name = name
                               /\ sendLog[p].outcome = "ok"}
          IN  /\ Cardinality(creations) <= 1
              /\ \A p \in creations : secretStore[name] = sendLog[p].value
              /\ creations = {} => secretStore[name] = "k0"
    /\ \A r \in 1..Len(runNetworks) :
          runNetworks[r] \in {"mainnet", "testnet"} =>
              LET entries == walletConfigs[runNetworks[r]]
              IN  \A i \in 1..Len(entries) :
                      PastEntry(r, i) =>
                          \E p \in 1..Len(sendLog) :
                              /\ sendLog[p].run = r
                              /\ sendLog[p].command = "describe"
                              /\ sendLog[p].name = WalletSecretName(entries[i].chain)

\* two runs are over: in the first the check of one chain failed and the
\* secret of the next chain was created; the second, configured with
\* another key for that chain, found the secret and left its value
C30_Witness ==
    /\ walletPc = "idle"
    /\ Len(runNetworks) = 2
    /\ \E p, c, d \in 1..Len(sendLog) :
          /\ p < c /\ c < d
          /\ sendLog[p].run = 1 /\ sendLog[p].outcome = "error"
          /\ sendLog[c].run = 1 /\ sendLog[c].command = "create"
          /\ sendLog[c].outcome = "ok" /\ sendLog[c].name # sendLog[p].name
          /\ sendLog[d].run = 2 /\ sendLog[d].command = "describe"
          /\ sendLog[d].outcome = "ok" /\ sendLog[d].name = sendLog[c].name
          /\ secretStore[sendLog[c].name] = sendLog[c].value
          /\ \E i \in 1..Len(walletConfigs[runNetworks[2]]) :
                /\ WalletSecretName(walletConfigs[runNetworks[2]][i].chain)
                       = sendLog[c].name
                /\ walletConfigs[runNetworks[2]][i].privateKey # sendLog[c].value

====
